---- MODULE Spec2Model ----
(***************************************************************************)
(* The application-settings screen (frontend/src/routes/app-settings.tsx)  *)
(* as a state machine: the baseline settings document, the per-field       *)
(* "has changed" flags, the uncontrolled form inputs, the Artifactory      *)
(* integration rows and the save round trip.                               *)
(*                                                                         *)
(* JavaScript strings that the code trims are sequences of one-character   *)
(* strings, so that trim() is computed and not assumed.  undefined is the  *)
(* one-element sequence Undefined; a tri-state boolean (boolean | null |   *)
(* undefined) is one of the strings "true", "false", "null", "undefined".  *)
(***************************************************************************)
EXTENDS Integers, Sequences, FiniteSets, TLC

\* ------------------------------------------------------------------ values

\* JavaScript undefined, as a value comparable with every modelled string.
Undefined == <<"undefined">>

\* MAX_BUDGET_PER_TASK: number | null -- null is encoded as -1 (a budget is >= 1).
NullBudget == -1

\* !!x for a tri-state boolean.
Truthy(x) == x = "true"

\* String.prototype.trim on a sequence of characters.
RECURSIVE TrimLeft(_)
TrimLeft(s) == IF s # <<>> /\ Head(s) = " " THEN TrimLeft(Tail(s)) ELSE s

RECURSIVE TrimRight(_)
TrimRight(s) ==
    IF s # <<>> /\ s[Len(s)] = " " THEN TrimRight(SubSeq(s, 1, Len(s) - 1)) ELSE s

Trim(s) == TrimRight(TrimLeft(s))

\* a || b for strings: the empty string and undefined are falsy.
OrElse(a, b) == IF a = Undefined \/ a = <<>> THEN b ELSE a

\* a ?? b for strings: only undefined (or null) falls through.
Coalesce(a, b) == IF a = Undefined THEN b ELSE a

\* ------------------------------------------------------- external constants

\* #/i18n AvailableLanguages: label shown in the input, value stored.
AvailableLanguages ==
    << [label |-> "English", value |-> "en"],
       [label |-> "Japanese", value |-> "ja"] >>

\* AvailableLanguages.find(({label}) => label === l)?.value
LanguageValueOfLabel(l) ==
    IF \E i \in DOMAIN AvailableLanguages : AvailableLanguages[i].label = l
    THEN AvailableLanguages[
             CHOOSE i \in DOMAIN AvailableLanguages :
                 /\ AvailableLanguages[i].label = l
                 /\ \A j \in 1..(i - 1) : AvailableLanguages[j].label # l ].value
    ELSE "undefined"

\* AvailableLanguages.find(({label}) => label === l)?.label
LanguageLabelOfLabel(l) ==
    IF \E i \in DOMAIN AvailableLanguages : AvailableLanguages[i].label = l
    THEN l
    ELSE "undefined"

\* AvailableLanguages.find(({value}) => value === v)?.label
LanguageLabelOfValue(v) ==
    IF \E i \in DOMAIN AvailableLanguages : AvailableLanguages[i].value = v
    THEN AvailableLanguages[
             CHOOSE i \in DOMAIN AvailableLanguages :
                 /\ AvailableLanguages[i].value = v
                 /\ \A j \in 1..(i - 1) : AvailableLanguages[j].value # v ].label
    ELSE "undefined"

\* #/services/settings DEFAULT_SETTINGS, the fields this screen reads.
DEFAULT_ARTIFACTORY_CLI_INSTALL_URL == <<"https://getcli.jfrog.io">>

DEFAULT_SETTINGS ==
    [ LANGUAGE |-> "en",
      GIT_USER_NAME |-> <<"openhands">>,
      GIT_USER_EMAIL |-> <<"openhands@all-hands.dev">>,
      ARTIFACTORY_CLI_INSTALL_URL |-> DEFAULT_ARTIFACTORY_CLI_INSTALL_URL ]

\* ----------------------------------------------------------- budget parsing

Digits == <<"0", "1", "2", "3", "4", "5", "6", "7", "8", "9">>

IsDigit(c) == \E d \in DOMAIN Digits : Digits[d] = c

DigitValue(c) == (CHOOSE d \in DOMAIN Digits : Digits[d] = c) - 1

RECURSIVE ParseDigits(_, _)
ParseDigits(s, acc) ==
    IF s = <<>> THEN acc ELSE ParseDigits(Tail(s), 10 * acc + DigitValue(Head(s)))

\* #/utils/settings-utils parseMaxBudgetPerTask: tolerant parse, null for an
\* empty text, a text that is no number, and a number below 1.
parseMaxBudgetPerTask(value) ==
    IF value = <<>> \/ \E i \in DOMAIN value : ~IsDigit(value[i])
    THEN NullBudget
    ELSE LET n == ParseDigits(value, 0) IN IF n >= 1 THEN n ELSE NullBudget

\* Number.prototype.toString for a positive integer.
RECURSIVE NumberToString(_)
NumberToString(n) ==
    IF n < 10 THEN <<Digits[n + 1]>>
    ELSE Append(NumberToString(n \div 10), Digits[(n % 10) + 1])

\* ------------------------------------------------ the settings document

\* settings?.MAX_BUDGET_PER_TASK while settings is undefined.
UndefinedBudget == -2

\* Partial<Record<ArtifactoryRepositoryType, string>> is the sequence of its
\* entries in insertion order (Object.entries), each [type, key]; this is the
\* value of settings?.ARTIFACTORY_REPOSITORIES while settings is undefined.
UndefinedMap == << [type |-> "undefined", key |-> Undefined] >>

\* `settings` before the first fetch: every settings?.FIELD is undefined.
NoSettings ==
    [ defined |-> FALSE,
      LANGUAGE |-> "undefined",
      USER_CONSENTS_TO_ANALYTICS |-> "undefined",
      ENABLE_SOUND_NOTIFICATIONS |-> "undefined",
      ENABLE_PROACTIVE_CONVERSATION_STARTERS |-> "undefined",
      ENABLE_SOLVABILITY_ANALYSIS |-> "undefined",
      MAX_BUDGET_PER_TASK |-> UndefinedBudget,
      GIT_USER_NAME |-> Undefined,
      GIT_USER_EMAIL |-> Undefined,
      ARTIFACTORY_HOST |-> Undefined,
      ARTIFACTORY_CLI_INSTALL_URL |-> Undefined,
      ARTIFACTORY_API_KEY_SET |-> "undefined",
      ARTIFACTORY_REPOSITORIES |-> UndefinedMap ]

\* A new user's document: nothing configured, every optional field absent.
FreshDocument ==
    [ defined |-> TRUE,
      LANGUAGE |-> "en",
      USER_CONSENTS_TO_ANALYTICS |-> "null",
      ENABLE_SOUND_NOTIFICATIONS |-> "false",
      ENABLE_PROACTIVE_CONVERSATION_STARTERS |-> "false",
      ENABLE_SOLVABILITY_ANALYSIS |-> "false",
      MAX_BUDGET_PER_TASK |-> NullBudget,
      GIT_USER_NAME |-> Undefined,
      GIT_USER_EMAIL |-> Undefined,
      ARTIFACTORY_HOST |-> Undefined,
      ARTIFACTORY_CLI_INSTALL_URL |-> Undefined,
      ARTIFACTORY_API_KEY_SET |-> "undefined",
      ARTIFACTORY_REPOSITORIES |-> <<>> ]

\* A configured document: every field set, a secret stored, one repository.
ConfiguredDocument ==
    [ defined |-> TRUE,
      LANGUAGE |-> "ja",
      USER_CONSENTS_TO_ANALYTICS |-> "true",
      ENABLE_SOUND_NOTIFICATIONS |-> "true",
      ENABLE_PROACTIVE_CONVERSATION_STARTERS |-> "true",
      ENABLE_SOLVABILITY_ANALYSIS |-> "true",
      MAX_BUDGET_PER_TASK |-> 5,
      GIT_USER_NAME |-> <<"a">>,
      GIT_USER_EMAIL |-> <<"a">>,
      ARTIFACTORY_HOST |-> <<"h">>,
      ARTIFACTORY_CLI_INSTALL_URL |-> <<"u">>,
      ARTIFACTORY_API_KEY_SET |-> "true",
      ARTIFACTORY_REPOSITORIES |-> << [type |-> "pypi", key |-> <<"a">>] >> ]

\* A document the server stored unnormalised: strings with surrounding
\* blanks, a language code the client does not know, two repositories.
UntrimmedDocument ==
    [ defined |-> TRUE,
      LANGUAGE |-> "xx",
      USER_CONSENTS_TO_ANALYTICS |-> "false",
      ENABLE_SOUND_NOTIFICATIONS |-> "true",
      ENABLE_PROACTIVE_CONVERSATION_STARTERS |-> "false",
      ENABLE_SOLVABILITY_ANALYSIS |-> "true",
      MAX_BUDGET_PER_TASK |-> NullBudget,
      GIT_USER_NAME |-> <<"a", " ">>,
      GIT_USER_EMAIL |-> <<" ", "a">>,
      ARTIFACTORY_HOST |-> <<"h", " ">>,
      ARTIFACTORY_CLI_INSTALL_URL |-> <<" ", "u">>,
      ARTIFACTORY_API_KEY_SET |-> "false",
      ARTIFACTORY_REPOSITORIES |->
          << [type |-> "npm", key |-> <<"b", " ">>],
             [type |-> "pypi", key |-> <<"a">>] >> ]

\* The documents the settings service answers with.
Baselines == {FreshDocument, ConfiguredDocument}

AllBaselines == {FreshDocument, ConfiguredDocument, UntrimmedDocument}

\* ------------------------------------------------ repository-map helpers

\* #/types/settings ArtifactoryRepositoryTypes, cut to its first entries.
MaxSupportedTypes == 2

AllArtifactoryRepositoryTypes == <<"pypi", "npm", "maven", "gradle">>

SUPPORTED_ARTIFACTORY_REPO_TYPES ==
    SubSeq(AllArtifactoryRepositoryTypes, 1, MaxSupportedTypes)

\* map[type] of a JavaScript object; undefined for a missing key.
MapGet(map, type) ==
    IF \E i \in DOMAIN map : map[i].type = type
    THEN map[CHOOSE i \in DOMAIN map : map[i].type = type].key
    ELSE Undefined

\* map[type] = key: an existing key keeps its place, a new one goes last.
MapSet(map, type, key) ==
    IF \E i \in DOMAIN map : map[i].type = type
    THEN [i \in DOMAIN map |->
             IF map[i].type = type THEN [type |-> type, key |-> key] ELSE map[i]]
    ELSE Append(map, [type |-> type, key |-> key])

MapKeys(map) == {map[i].type : i \in DOMAIN map}

createIntegration(repositoryType, repositoryKey, id) ==
    [ id |-> id, repositoryType |-> repositoryType, repositoryKey |-> repositoryKey ]

\* `artifactory-${type}` and `artifactory-${random}`.
IntegrationId(suffix) == <<"artifactory", suffix>>

\* mapRepositoriesToIntegrations leaving the keys out.
mapRepositoriesToIntegrationsWithoutKeys(repositories) ==
    IF repositories = UndefinedMap
    THEN <<>>
    ELSE [ i \in DOMAIN repositories |->
             createIntegration(repositories[i].type, <<>>,
                               IntegrationId(repositories[i].type)) ]

\* mapRepositoriesToIntegrations giving every row one fixed identifier.
mapRepositoriesToIntegrationsFixedId(repositories) ==
    IF repositories = UndefinedMap
    THEN <<>>
    ELSE [ i \in DOMAIN repositories |->
             createIntegration(repositories[i].type,
                               OrElse(repositories[i].key, <<>>),
                               IntegrationId("r1")) ]

mapRepositoriesToIntegrations(repositories) ==
    IF repositories = UndefinedMap
    THEN <<>>
    ELSE [ i \in DOMAIN repositories |->
             createIntegration(repositories[i].type,
                               OrElse(repositories[i].key, <<>>),
                               IntegrationId(repositories[i].type)) ]

RECURSIVE integrationsToRepositoryMapFrom(_, _)
integrationsToRepositoryMapFrom(integrations, result) ==
    IF integrations = <<>>
    THEN result
    ELSE LET integration == Head(integrations)
             trimmed == Trim(integration.repositoryKey)
         IN  integrationsToRepositoryMapFrom(
                 Tail(integrations),
                 IF integration.repositoryType = "" \/ trimmed = <<>>
                 THEN result
                 ELSE MapSet(result, integration.repositoryType, trimmed))

integrationsToRepositoryMap(integrations) ==
    integrationsToRepositoryMapFrom(integrations, <<>>)

RECURSIVE normalizeRepositoryMapFrom(_, _)
normalizeRepositoryMapFrom(entries, normalized) ==
    IF entries = <<>>
    THEN normalized
    ELSE LET entry == Head(entries)
         IN  normalizeRepositoryMapFrom(
                 Tail(entries),
                 IF entry.key = Undefined \/ Trim(entry.key) = <<>>
                 THEN normalized
                 ELSE MapSet(normalized, entry.type, Trim(entry.key)))

normalizeRepositoryMap(map) ==
    IF map = UndefinedMap THEN <<>> ELSE normalizeRepositoryMapFrom(map, <<>>)

\* repositoryMapsEqual comparing the entries in insertion order.
repositoryMapsEqualOrdered(a, b) ==
    normalizeRepositoryMap(a) = normalizeRepositoryMap(b)

\* repositoryMapsEqual without the comparison of the numbers of keys.
repositoryMapsEqualWithoutLength(a, b) ==
    LET normalizedA == normalizeRepositoryMap(a)
        normalizedB == normalizeRepositoryMap(b)
    IN  \A key \in MapKeys(normalizedA) :
            MapGet(normalizedA, key) = MapGet(normalizedB, key)

repositoryMapsEqual(a, b) ==
    LET normalizedA == normalizeRepositoryMap(a)
        normalizedB == normalizeRepositoryMap(b)
    IN  IF Cardinality(MapKeys(normalizedA)) # Cardinality(MapKeys(normalizedB))
        THEN FALSE
        ELSE \A key \in MapKeys(normalizedA) :
                 MapGet(normalizedA, key) = MapGet(normalizedB, key)

\* ------------------------------------------------------------------ state

VARIABLES
    settings,                     \* useSettings().data, NoSettings before the first fetch
    isLoading,                    \* useSettings().isLoading
    isPending,                    \* useSaveSettings().isPending
    config,                       \* useConfig().data?.APP_MODE
    repoTypesFromApi,             \* useArtifactoryRepositoryTypes().data
    flags,                        \* the twelve React.useState(false) flags, by name
    artifactoryApiKeyInputValue,  \* React.useState("")
    artifactoryIntegrations,      \* React.useState([])
    form,                         \* the inputs' DOM values, by input name
    payload,                      \* the document handed to saveSettings
    calls,                        \* collaborator calls made when the last save settled
    secretStep,                   \* progress of: type a secret, clear on, clear off
    search,                       \* the ArtifactoryRepositorySearchInput of the first row
    typesResponse                 \* the answer of GET repository-types being awaited

vars ==
    << settings, isLoading, isPending, config, repoTypesFromApi, flags,
       artifactoryApiKeyInputValue, artifactoryIntegrations, form, payload,
       calls, secretStep, search, typesResponse >>

\* The flags declared at lines 165-196, in that order.
FlagNames ==
    { "languageInputHasChanged", "analyticsSwitchHasChanged",
      "soundNotificationsSwitchHasChanged",
      "proactiveConversationsSwitchHasChanged",
      "solvabilityAnalysisSwitchHasChanged", "maxBudgetPerTaskHasChanged",
      "gitUserNameHasChanged", "gitUserEmailHasChanged",
      "artifactoryHostHasChanged", "artifactoryCliInstallUrlHasChanged",
      "artifactoryApiKeyHasChanged", "artifactoryClearApiKey" }

\* The inputs the form renders, by their name attribute.
FormNames ==
    { "language-input", "enable-analytics-switch",
      "enable-sound-notifications-switch",
      "enable-proactive-conversations-switch",
      "enable-solvability-analysis-switch", "max-budget-per-task-input",
      "git-user-name-input", "git-user-email-input", "artifactory-host-input",
      "artifactory-cli-install-url-input", "artifactory-api-key-input",
      "clear-artifactory-api-key-switch" }

\* ------------------------------------------------------------ derived values

repositoryTypes ==
    IF repoTypesFromApi = Undefined
    THEN SUPPORTED_ARTIFACTORY_REPO_TYPES
    ELSE repoTypesFromApi

artifactoryRepositoriesPayload ==
    integrationsToRepositoryMap(artifactoryIntegrations)

artifactoryReposHaveChanged ==
    ~repositoryMapsEqual(settings.ARTIFACTORY_REPOSITORIES,
                         artifactoryRepositoriesPayload)

\* formIsClean with the solvability flag forgotten.
formIsCleanWithoutSolvability ==
    /\ ~flags.languageInputHasChanged
    /\ ~flags.analyticsSwitchHasChanged
    /\ ~flags.soundNotificationsSwitchHasChanged
    /\ ~flags.proactiveConversationsSwitchHasChanged
    /\ ~flags.maxBudgetPerTaskHasChanged
    /\ ~flags.gitUserNameHasChanged
    /\ ~flags.gitUserEmailHasChanged
    /\ ~flags.artifactoryHostHasChanged
    /\ ~flags.artifactoryCliInstallUrlHasChanged
    /\ ~flags.artifactoryApiKeyHasChanged
    /\ ~flags.artifactoryClearApiKey
    /\ ~artifactoryReposHaveChanged

\* formIsClean with the repository-map comparison forgotten.
formIsCleanWithoutRepositories ==
    \A name \in FlagNames : ~flags[name]

formIsClean ==
    /\ ~flags.languageInputHasChanged
    /\ ~flags.analyticsSwitchHasChanged
    /\ ~flags.soundNotificationsSwitchHasChanged
    /\ ~flags.proactiveConversationsSwitchHasChanged
    /\ ~flags.solvabilityAnalysisSwitchHasChanged
    /\ ~flags.maxBudgetPerTaskHasChanged
    /\ ~flags.gitUserNameHasChanged
    /\ ~flags.gitUserEmailHasChanged
    /\ ~flags.artifactoryHostHasChanged
    /\ ~flags.artifactoryCliInstallUrlHasChanged
    /\ ~flags.artifactoryApiKeyHasChanged
    /\ ~flags.artifactoryClearApiKey
    /\ ~artifactoryReposHaveChanged

\* shouldBeLoading without the test for a missing document.
shouldBeLoadingWithoutSettings == isLoading \/ isPending

shouldBeLoading == ~settings.defined \/ isLoading \/ isPending

\* isDisabled of the submit button.
submitIsDisabled == isPending \/ formIsClean

\* isDisabled of the add-repository button, were it isPending alone.
addIsDisabledOnlyWhilePending == isPending

\* isDisabled of the add-repository button.
addIsDisabled ==
    \/ isPending
    \/ Len(repositoryTypes) = 0
    \/ Len(artifactoryIntegrations) >= Len(repositoryTypes)

\* --------------------------------------------------------- the mounted form

\* defaultValue / defaultIsToggled / defaultKey of each input, lines 480-634.
FormDefaults(s) ==
    [ n \in FormNames |->
        CASE n = "language-input" ->
               LET label == LanguageLabelOfValue(s.LANGUAGE)
               IN  IF label = "undefined" THEN "" ELSE label
          [] n = "enable-analytics-switch" ->
               Truthy(s.USER_CONSENTS_TO_ANALYTICS)
          [] n = "enable-sound-notifications-switch" ->
               Truthy(s.ENABLE_SOUND_NOTIFICATIONS)
          [] n = "enable-proactive-conversations-switch" ->
               config = "saas" /\ Truthy(s.ENABLE_PROACTIVE_CONVERSATION_STARTERS)
          [] n = "enable-solvability-analysis-switch" ->
               config = "saas" /\ Truthy(s.ENABLE_SOLVABILITY_ANALYSIS)
          [] n = "max-budget-per-task-input" ->
               IF s.MAX_BUDGET_PER_TASK >= 0
               THEN NumberToString(s.MAX_BUDGET_PER_TASK)
               ELSE <<>>
          [] n = "git-user-name-input" -> OrElse(s.GIT_USER_NAME, <<>>)
          [] n = "git-user-email-input" -> OrElse(s.GIT_USER_EMAIL, <<>>)
          [] n = "artifactory-host-input" -> OrElse(s.ARTIFACTORY_HOST, <<>>)
          [] n = "artifactory-cli-install-url-input" ->
               Coalesce(s.ARTIFACTORY_CLI_INSTALL_URL,
                        Coalesce(DEFAULT_SETTINGS.ARTIFACTORY_CLI_INSTALL_URL, <<>>))
          [] n = "artifactory-api-key-input" -> <<>>
          [] n = "clear-artifactory-api-key-switch" -> FALSE ]

\* No input is mounted while the skeleton is shown.
Unmounted == FormDefaults(NoSettings)

\* ------------------------------------------------- per-field comparators

checkIfLanguageInputHasChanged(value) ==
    LET selectedLanguage == LanguageLabelOfLabel(value)
        currentLanguage == LanguageLabelOfValue(settings.LANGUAGE)
    IN  selectedLanguage # currentLanguage

checkIfAnalyticsSwitchHasChanged(checked) ==
    checked # Truthy(settings.USER_CONSENTS_TO_ANALYTICS)

checkIfSoundNotificationsSwitchHasChanged(checked) ==
    checked # Truthy(settings.ENABLE_SOUND_NOTIFICATIONS)

checkIfProactiveConversationsSwitchHasChanged(checked) ==
    checked # Truthy(settings.ENABLE_PROACTIVE_CONVERSATION_STARTERS)

checkIfSolvabilityAnalysisSwitchHasChanged(checked) ==
    checked # Truthy(settings.ENABLE_SOLVABILITY_ANALYSIS)

\* The budget comparator on the raw text instead of the parsed number.
checkIfMaxBudgetPerTaskHasChangedRawText(value) ==
    LET currentValue == settings.MAX_BUDGET_PER_TASK
    IN  value # (IF currentValue >= 0 THEN NumberToString(currentValue) ELSE <<>>)

checkIfMaxBudgetPerTaskHasChanged(value) ==
    LET newValue == parseMaxBudgetPerTask(value)
        currentValue == settings.MAX_BUDGET_PER_TASK
    IN  newValue # currentValue

checkIfGitUserNameHasChanged(value) ==
    LET currentValue == settings.GIT_USER_NAME
    IN  value # currentValue

checkIfGitUserEmailHasChanged(value) ==
    LET currentValue == settings.GIT_USER_EMAIL
    IN  value # currentValue

checkIfArtifactoryHostHasChanged(value) ==
    LET currentHost == OrElse(settings.ARTIFACTORY_HOST, <<>>)
    IN  value # currentHost

checkIfArtifactoryCliInstallUrlHasChanged(value) ==
    LET normalizedValue == Trim(value)
        currentValue ==
            Coalesce(settings.ARTIFACTORY_CLI_INSTALL_URL,
                     Coalesce(DEFAULT_SETTINGS.ARTIFACTORY_CLI_INSTALL_URL, <<>>))
    IN  normalizedValue # Trim(currentValue)

\* ------------------------------------------------------- change events

\* An input fires onChange when the user gives it another value; the inputs
\* exist only while the skeleton is not shown (line 478).
InputChanges(name, value) ==
    /\ ~shouldBeLoading
    /\ value # form[name]
    /\ form' = [form EXCEPT ![name] = value]

\* What a scalar input's change leaves alone.
ScalarFrame ==
    UNCHANGED << typesResponse, search, settings, isLoading, isPending, config, repoTypesFromApi,
                 artifactoryApiKeyInputValue, artifactoryIntegrations, payload,
                 secretStep >>

LanguageInputChange(Labels) ==
    \E value \in Labels :
        /\ InputChanges("language-input", value)
        /\ flags' = [flags EXCEPT !.languageInputHasChanged =
                         checkIfLanguageInputHasChanged(value)]
        /\ calls' = <<>>
        /\ ScalarFrame

AnalyticsSwitchToggle ==
    \E checked \in BOOLEAN :
        /\ InputChanges("enable-analytics-switch", checked)
        /\ flags' = [flags EXCEPT !.analyticsSwitchHasChanged =
                         checkIfAnalyticsSwitchHasChanged(checked)]
        /\ calls' = <<>>
        /\ ScalarFrame

SoundNotificationsSwitchToggle ==
    \E checked \in BOOLEAN :
        /\ InputChanges("enable-sound-notifications-switch", checked)
        /\ flags' = [flags EXCEPT !.soundNotificationsSwitchHasChanged =
                         checkIfSoundNotificationsSwitchHasChanged(checked)]
        /\ calls' = <<>>
        /\ ScalarFrame

ProactiveConversationsSwitchToggle ==
    \E checked \in BOOLEAN :
        /\ config = "saas"
        /\ InputChanges("enable-proactive-conversations-switch", checked)
        /\ flags' = [flags EXCEPT !.proactiveConversationsSwitchHasChanged =
                         checkIfProactiveConversationsSwitchHasChanged(checked)]
        /\ calls' = <<>>
        /\ ScalarFrame

SolvabilityAnalysisSwitchToggle ==
    \E checked \in BOOLEAN :
        /\ config = "saas"
        /\ InputChanges("enable-solvability-analysis-switch", checked)
        /\ flags' = [flags EXCEPT !.solvabilityAnalysisSwitchHasChanged =
                         checkIfSolvabilityAnalysisSwitchHasChanged(checked)]
        /\ calls' = <<>>
        /\ ScalarFrame

MaxBudgetPerTaskInputChange(Texts) ==
    \E value \in Texts :
        /\ InputChanges("max-budget-per-task-input", value)
        /\ flags' = [flags EXCEPT !.maxBudgetPerTaskHasChanged =
                         checkIfMaxBudgetPerTaskHasChanged(value)]
        /\ calls' = <<>>
        /\ ScalarFrame

GitUserNameInputChange(Texts) ==
    \E value \in Texts :
        /\ InputChanges("git-user-name-input", value)
        /\ flags' = [flags EXCEPT !.gitUserNameHasChanged =
                         checkIfGitUserNameHasChanged(value)]
        /\ calls' = <<>>
        /\ ScalarFrame

GitUserEmailInputChange(Texts) ==
    \E value \in Texts :
        /\ InputChanges("git-user-email-input", value)
        /\ flags' = [flags EXCEPT !.gitUserEmailHasChanged =
                         checkIfGitUserEmailHasChanged(value)]
        /\ calls' = <<>>
        /\ ScalarFrame

ArtifactoryHostInputChange(Texts) ==
    \E value \in Texts :
        /\ InputChanges("artifactory-host-input", value)
        /\ flags' = [flags EXCEPT !.artifactoryHostHasChanged =
                         checkIfArtifactoryHostHasChanged(value)]
        /\ calls' = <<>>
        /\ ScalarFrame

ArtifactoryCliInstallUrlInputChange(Texts) ==
    \E value \in Texts :
        /\ InputChanges("artifactory-cli-install-url-input", value)
        /\ flags' = [flags EXCEPT !.artifactoryCliInstallUrlHasChanged =
                         checkIfArtifactoryCliInstallUrlHasChanged(value)]
        /\ calls' = <<>>
        /\ ScalarFrame

\* --------------------------------------------------------------- the secret

\* handleArtifactoryApiKeyInputChange, lines 397-404.
handleArtifactoryApiKeyInputChange(value) ==
    LET trimmed == Trim(value)
    IN  /\ artifactoryApiKeyInputValue' = value
        /\ flags' = [flags EXCEPT
                        !.artifactoryApiKeyHasChanged = Len(trimmed) > 0,
                        !.artifactoryClearApiKey =
                            IF Len(trimmed) > 0 THEN FALSE ELSE @]

ArtifactoryApiKeyInputChange(Texts) ==
    \E value \in Texts :
        /\ InputChanges("artifactory-api-key-input", value)
        /\ handleArtifactoryApiKeyInputChange(value)
        /\ secretStep' = IF Len(Trim(value)) > 0 THEN 1 ELSE 0
        /\ calls' = <<>>
        /\ UNCHANGED << typesResponse, search, settings, isLoading, isPending, config, repoTypesFromApi,
                        artifactoryIntegrations, payload >>

\* onToggle that does not recompute the changed flag when toggled off.
clearArtifactoryApiKeyOnToggleKeepsFalse(checked) ==
    flags' = [flags EXCEPT
                 !.artifactoryClearApiKey = checked,
                 !.artifactoryApiKeyHasChanged = checked]

\* onToggle of the clear-artifactory-api-key-switch, lines 621-630.
clearArtifactoryApiKeyOnToggle(checked) ==
    flags' = [flags EXCEPT
                 !.artifactoryClearApiKey = checked,
                 !.artifactoryApiKeyHasChanged =
                     IF checked
                     THEN TRUE
                     ELSE Len(Trim(artifactoryApiKeyInputValue)) > 0]

\* The switch is rendered only while a secret is stored (line 616).
ClearArtifactoryApiKeySwitchToggle ==
    \E checked \in BOOLEAN :
        /\ Truthy(settings.ARTIFACTORY_API_KEY_SET)
        /\ InputChanges("clear-artifactory-api-key-switch", checked)
        /\ clearArtifactoryApiKeyOnToggle(checked)
        /\ secretStep' = IF checked /\ secretStep = 1 THEN 2
                         ELSE IF ~checked /\ secretStep = 2 THEN 3
                         ELSE 0
        /\ calls' = <<>>
        /\ UNCHANGED << typesResponse, search, settings, isLoading, isPending, config, repoTypesFromApi,
                        artifactoryApiKeyInputValue, artifactoryIntegrations,
                        payload >>

\* ------------------------------------------------------ integration rows

\* handleArtifactoryTypeChange that never empties the key.
handleArtifactoryTypeChangeKeepsKey(prev, id, value) ==
    [ i \in DOMAIN prev |->
        LET isValid == \E t \in DOMAIN repositoryTypes : repositoryTypes[t] = value
        IN  IF prev[i].id # id
            THEN prev[i]
            ELSE [ prev[i] EXCEPT !.repositoryType = IF isValid THEN value ELSE "" ] ]

\* handleArtifactoryTypeChange without the membership test.
handleArtifactoryTypeChangeUnchecked(prev, id, value) ==
    [ i \in DOMAIN prev |->
        IF prev[i].id # id
        THEN prev[i]
        ELSE [ prev[i] EXCEPT
                 !.repositoryType = value,
                 !.repositoryKey = IF value # prev[i].repositoryType THEN <<>> ELSE @ ] ]

handleArtifactoryTypeChange(prev, id, value) ==
    [ i \in DOMAIN prev |->
        LET integration == prev[i]
            isValid == \E t \in DOMAIN repositoryTypes : repositoryTypes[t] = value
            nextType == IF isValid THEN value ELSE ""
            shouldResetRepository == nextType # integration.repositoryType
        IN  IF integration.id # id
            THEN integration
            ELSE [ integration EXCEPT
                     !.repositoryType = nextType,
                     !.repositoryKey =
                         IF shouldResetRepository THEN <<>> ELSE @ ] ]

handleArtifactoryRepositoryChange(prev, id, value) ==
    [ i \in DOMAIN prev |->
        IF prev[i].id = id
        THEN [prev[i] EXCEPT !.repositoryKey = value]
        ELSE prev[i] ]

\* handleRemoveArtifactoryIntegration dropping the row and all that follow.
RECURSIVE handleRemoveArtifactoryIntegrationAndRest(_, _)
handleRemoveArtifactoryIntegrationAndRest(prev, id) ==
    IF prev = <<>>
    THEN <<>>
    ELSE IF Head(prev).id # id
         THEN <<Head(prev)>> \o handleRemoveArtifactoryIntegrationAndRest(Tail(prev), id)
         ELSE <<>>

RECURSIVE handleRemoveArtifactoryIntegration(_, _)
handleRemoveArtifactoryIntegration(prev, id) ==
    IF prev = <<>>
    THEN <<>>
    ELSE IF Head(prev).id # id
         THEN <<Head(prev)>> \o handleRemoveArtifactoryIntegration(Tail(prev), id)
         ELSE handleRemoveArtifactoryIntegration(Tail(prev), id)

handleAddArtifactoryIntegration(prev, id) ==
    Append(prev, createIntegration("", <<>>, id))

\* Math.random().toString(36).slice(2, 10): the first suffix no row has yet.
RandomSuffixes == <<"r1", "r2", "r3", "r4", "r5", "r6">>

RandomIds(integrations) ==
    LET used == { integrations[i].id : i \in DOMAIN integrations }
        free == { n \in DOMAIN RandomSuffixes :
                    IntegrationId(RandomSuffixes[n]) \notin used }
    IN  { IntegrationId(RandomSuffixes[n]) :
            n \in { m \in free : \A other \in free : m <= other } }

\* usedTypes, lines 651-658.
usedTypes(integration) ==
    { artifactoryIntegrations[i].repositoryType :
        i \in { j \in DOMAIN artifactoryIntegrations :
                  /\ artifactoryIntegrations[j].id # integration.id
                  /\ artifactoryIntegrations[j].repositoryType # "" } }

\* availableOptions without the filter on the categories other rows use.
availableOptionsUnfiltered(integration) == repositoryTypes

\* availableOptions, lines 660-666: the values of the options offered.
availableOptions(integration) ==
    LET Offered(type) ==
            \/ type = integration.repositoryType
            \/ type \notin usedTypes(integration)
    IN  SelectSeq(repositoryTypes, Offered)

RowFrame ==
    UNCHANGED << typesResponse, search, settings, isLoading, isPending, config, repoTypesFromApi, flags,
                 artifactoryApiKeyInputValue, form, payload, secretStep >>

\* The select of a row fires onChange with one of its options.
ArtifactoryTypeChange ==
    \E i \in DOMAIN artifactoryIntegrations :
        LET integration == artifactoryIntegrations[i]
            options == availableOptions(integration)
        IN  \E o \in DOMAIN options :
                /\ ~shouldBeLoading
                /\ options[o] # integration.repositoryType
                /\ artifactoryIntegrations' =
                       handleArtifactoryTypeChange(artifactoryIntegrations,
                                                   integration.id, options[o])
                /\ calls' = <<>>
                /\ RowFrame

\* The search input of a row is disabled while the row has no type (line 700).
ArtifactoryRepositoryChange(Keys) ==
    \E i \in DOMAIN artifactoryIntegrations :
        \E value \in Keys :
            /\ ~shouldBeLoading
            /\ artifactoryIntegrations[i].repositoryType # ""
            /\ value # artifactoryIntegrations[i].repositoryKey
            /\ artifactoryIntegrations' =
                   handleArtifactoryRepositoryChange(
                       artifactoryIntegrations, artifactoryIntegrations[i].id, value)
            /\ calls' = <<>>
            /\ RowFrame

RemoveArtifactoryIntegration ==
    \E i \in DOMAIN artifactoryIntegrations :
        /\ ~shouldBeLoading
        /\ artifactoryIntegrations' =
               handleRemoveArtifactoryIntegration(
                   artifactoryIntegrations, artifactoryIntegrations[i].id)
        /\ calls' = <<>>
        /\ RowFrame

AddArtifactoryIntegration ==
    \E id \in RandomIds(artifactoryIntegrations) :
        /\ ~shouldBeLoading
        /\ ~addIsDisabled
        /\ artifactoryIntegrations' =
               handleAddArtifactoryIntegration(artifactoryIntegrations, id)
        /\ calls' = <<>>
        /\ RowFrame

\* ------------------------------------------------------------- the save

\* shouldSendArtifactoryKey, lines 273-274.
shouldSendArtifactoryKey ==
    flags.artifactoryClearApiKey \/ flags.artifactoryApiKeyHasChanged

\* artifactoryApiKeyPayload with the two branches in the other order.
artifactoryApiKeyPayloadTypedFirst(artifactoryApiKeyInput) ==
    IF flags.artifactoryApiKeyHasChanged
    THEN artifactoryApiKeyInput
    ELSE IF flags.artifactoryClearApiKey THEN <<>> ELSE Undefined

\* artifactoryApiKeyPayload, lines 276-281; undefined when neither flag is set.
artifactoryApiKeyPayload(artifactoryApiKeyInput) ==
    IF flags.artifactoryClearApiKey
    THEN <<>>
    ELSE IF flags.artifactoryApiKeyHasChanged
         THEN artifactoryApiKeyInput
         ELSE Undefined

\* The payload formAction builds from the form data, lines 234-299; a key
\* the payload does not have is undefined.
formActionPayload ==
    LET languageLabel == form["language-input"]
        languageValue == LanguageValueOfLabel(languageLabel)
        language == IF languageValue = "undefined" \/ languageValue = ""
                    THEN DEFAULT_SETTINGS.LANGUAGE
                    ELSE languageValue
        enableAnalytics == form["enable-analytics-switch"]
        enableSoundNotifications == form["enable-sound-notifications-switch"]
        enableProactiveConversations ==
            form["enable-proactive-conversations-switch"]
        enableSolvabilityAnalysis == form["enable-solvability-analysis-switch"]
        maxBudgetPerTask ==
            parseMaxBudgetPerTask(OrElse(form["max-budget-per-task-input"], <<>>))
        gitUserName ==
            OrElse(form["git-user-name-input"], DEFAULT_SETTINGS.GIT_USER_NAME)
        gitUserEmail ==
            OrElse(form["git-user-email-input"], DEFAULT_SETTINGS.GIT_USER_EMAIL)
        artifactoryHost == OrElse(Trim(form["artifactory-host-input"]), <<>>)
        artifactoryCliInstallUrl ==
            Coalesce(Trim(form["artifactory-cli-install-url-input"]), <<>>)
        artifactoryApiKeyInput ==
            OrElse(Trim(form["artifactory-api-key-input"]), <<>>)
    IN  [ LANGUAGE |-> language,
          user_consents_to_analytics |-> enableAnalytics,
          ENABLE_SOUND_NOTIFICATIONS |-> enableSoundNotifications,
          ENABLE_PROACTIVE_CONVERSATION_STARTERS |-> enableProactiveConversations,
          ENABLE_SOLVABILITY_ANALYSIS |-> enableSolvabilityAnalysis,
          MAX_BUDGET_PER_TASK |-> maxBudgetPerTask,
          GIT_USER_NAME |-> gitUserName,
          GIT_USER_EMAIL |-> gitUserEmail,
          ARTIFACTORY_HOST |-> artifactoryHost,
          ARTIFACTORY_CLI_INSTALL_URL |-> artifactoryCliInstallUrl,
          ARTIFACTORY_REPOSITORIES |-> artifactoryRepositoriesPayload,
          artifactory_api_key |->
              IF shouldSendArtifactoryKey
              THEN Coalesce(artifactoryApiKeyPayload(artifactoryApiKeyInput), <<>>)
              ELSE Undefined ]

\* The setters onSettled calls, lines 310-323.
onSettled ==
    /\ flags' = [flags EXCEPT
                    !.languageInputHasChanged = FALSE,
                    !.analyticsSwitchHasChanged = FALSE,
                    !.soundNotificationsSwitchHasChanged = FALSE,
                    !.proactiveConversationsSwitchHasChanged = FALSE,
                    !.maxBudgetPerTaskHasChanged = FALSE,
                    !.gitUserNameHasChanged = FALSE,
                    !.gitUserEmailHasChanged = FALSE,
                    !.artifactoryHostHasChanged = FALSE,
                    !.artifactoryCliInstallUrlHasChanged = FALSE,
                    !.artifactoryApiKeyHasChanged = FALSE,
                    !.artifactoryClearApiKey = FALSE]
    /\ artifactoryApiKeyInputValue' = <<>>

\* The form's action: the submit button is the only way to submit, and the
\* inputs give way to the skeleton while the save is pending.
formAction ==
    /\ ~submitIsDisabled
    /\ payload' = <<formActionPayload>>
    /\ isPending' = TRUE
    /\ form' = Unmounted
    /\ calls' = <<>>
    /\ secretStep' = 0
    /\ UNCHANGED << typesResponse, search, settings, isLoading, config, repoTypesFromApi, flags,
                    artifactoryApiKeyInputValue, artifactoryIntegrations >>

\* SaveSucceeds propagating the baseline's consent instead of the submitted one.
SaveSucceedsWithBaselineConsent ==
    /\ isPending
    /\ isPending' = FALSE
    /\ calls' = << [fn |-> "handleCaptureConsent",
                    arg |-> IF Truthy(settings.USER_CONSENTS_TO_ANALYTICS)
                            THEN "true" ELSE "false"],
                   [fn |-> "displaySuccessToast", arg |-> "SETTINGS$SAVED"] >>
    /\ onSettled
    /\ payload' = <<>>
    /\ form' = IF settings.defined /\ ~isLoading THEN FormDefaults(settings)
               ELSE Unmounted
    /\ secretStep' = 0
    /\ UNCHANGED << typesResponse, search, settings, isLoading, config, repoTypesFromApi,
                    artifactoryIntegrations >>

\* saveSettings resolves: onSuccess, then onSettled.
SaveSucceeds ==
    /\ isPending
    /\ isPending' = FALSE
    /\ calls' = << [fn |-> "handleCaptureConsent",
                    arg |-> IF payload[1].user_consents_to_analytics
                            THEN "true" ELSE "false"],
                   [fn |-> "displaySuccessToast", arg |-> "SETTINGS$SAVED"] >>
    /\ onSettled
    /\ payload' = <<>>
    /\ form' = IF settings.defined /\ ~isLoading THEN FormDefaults(settings)
               ELSE Unmounted
    /\ secretStep' = 0
    /\ UNCHANGED << typesResponse, search, settings, isLoading, config, repoTypesFromApi,
                    artifactoryIntegrations >>

\* retrieveAxiosErrorMessage(error): a message of the transport, or none.
ErrorMessages == {"", "Request failed"}

\* saveSettings rejects: onError, then onSettled.
SaveFails ==
    \E errorMessage \in ErrorMessages :
        /\ isPending
        /\ isPending' = FALSE
        /\ calls' = << [fn |-> "displayErrorToast",
                        arg |-> IF errorMessage = "" THEN "ERROR$GENERIC"
                                ELSE errorMessage] >>
        /\ onSettled
        /\ payload' = <<>>
        /\ form' = IF settings.defined /\ ~isLoading THEN FormDefaults(settings)
                   ELSE Unmounted
        /\ secretStep' = 0
        /\ UNCHANGED << typesResponse, search, settings, isLoading, config, repoTypesFromApi,
                        artifactoryIntegrations >>

\* ------------------------------------------------- the baseline arrives

\* ResetEffectRuns without ARTIFACTORY_API_KEY_SET among the dependencies.
ResetEffectRunsWithoutKeySet(new) ==
    \/ new.ARTIFACTORY_HOST # settings.ARTIFACTORY_HOST
    \/ new.ARTIFACTORY_CLI_INSTALL_URL # settings.ARTIFACTORY_CLI_INSTALL_URL

\* The effect of lines 222-232 runs when one of its dependencies changes.
ResetEffectRuns(new) ==
    \/ new.ARTIFACTORY_HOST # settings.ARTIFACTORY_HOST
    \/ new.ARTIFACTORY_CLI_INSTALL_URL # settings.ARTIFACTORY_CLI_INSTALL_URL
    \/ new.ARTIFACTORY_API_KEY_SET # settings.ARTIFACTORY_API_KEY_SET

\* useSettings delivers the document `new`: the effects of lines 203-206 and
\* 222-232 run, mounted inputs keep their DOM values, and inputs that were
\* not mounted mount with their defaults.
SettingsArrive(new) ==
    /\ settings' = new
    /\ isLoading' = FALSE
    /\ artifactoryIntegrations' =
           IF new.ARTIFACTORY_REPOSITORIES # settings.ARTIFACTORY_REPOSITORIES
           THEN mapRepositoriesToIntegrations(new.ARTIFACTORY_REPOSITORIES)
           ELSE artifactoryIntegrations
    /\ IF ResetEffectRuns(new)
       THEN /\ flags' = [flags EXCEPT
                            !.artifactoryHostHasChanged = FALSE,
                            !.artifactoryCliInstallUrlHasChanged = FALSE,
                            !.artifactoryApiKeyHasChanged = FALSE,
                            !.artifactoryClearApiKey = FALSE]
            /\ artifactoryApiKeyInputValue' = <<>>
            /\ secretStep' = 0
       ELSE UNCHANGED << flags, artifactoryApiKeyInputValue, secretStep >>
    /\ form' = IF isPending
               THEN Unmounted
               ELSE IF shouldBeLoading
                    THEN FormDefaults(new)
                    ELSE [form EXCEPT !["clear-artifactory-api-key-switch"] =
                             IF Truthy(new.ARTIFACTORY_API_KEY_SET)
                                /\ Truthy(settings.ARTIFACTORY_API_KEY_SET)
                             THEN @ ELSE FALSE]
    /\ calls' = <<>>
    /\ UNCHANGED << typesResponse, search, isPending, config, repoTypesFromApi, payload >>

\* The first fetch completes.
LoadSettings(Documents) ==
    \E new \in Documents :
        /\ ~settings.defined
        /\ SettingsArrive(new)

\* A later fetch answers with another document.
RefetchSettings(Documents) ==
    \E new \in Documents :
        /\ settings.defined
        /\ new # settings
        /\ SettingsArrive(new)

\* ------------------------------------------- the repository-type answer

\* No answer of the repository-types request is awaited.
NoTypesResponse == [ pending |-> FALSE, types |-> <<>> ]

\* ------------------------------------------- the repository search input

\* useDebounce(inputValue, 300): the quiet period, in milliseconds.
DebounceDelay == 300

\* limit: number = 20 of useArtifactoryRepositorySearch.
SearchLimit == 20

\* The search input of the first row and the query cache behind it, before
\* any row is shown: debouncedQuery is the debounced state, elapsed the time
\* since inputValue last changed (DebounceDelay once the timer has fired),
\* cache the results stored by query key, inFlight the requests under way.
\* lastRequest, burst and burstRequests record the requests issued since the
\* current run of keystrokes began.
NoSearch ==
    [ debouncedQuery |-> <<>>,
      elapsed |-> DebounceDelay,
      cache |-> {},
      inFlight |-> {},
      lastRequest |-> <<>>,
      burst |-> "idle",
      burstRequests |-> 0 ]

\* ------------------------------------------------------------ specification

AppModes == {"saas", "oss"}

\* The screen mounts: no settings yet, every flag false, no rows.  The
\* repository-type query may already hold an answer from an earlier visit.
InitWith(types) ==
    /\ settings = NoSettings
    /\ isLoading \in BOOLEAN
    /\ isPending = FALSE
    /\ config \in AppModes
    /\ repoTypesFromApi = types
    /\ flags = [name \in FlagNames |-> FALSE]
    /\ artifactoryApiKeyInputValue = <<>>
    /\ artifactoryIntegrations = <<>>
    /\ form = Unmounted
    /\ payload = <<>>
    /\ calls = <<>>
    /\ secretStep = 0
    /\ typesResponse = NoTypesResponse
    /\ search = NoSearch

\* The whole form on a server that offers one repository type.
Init == InitWith(<<"pypi">>)

\* What the user types in the main specification.
LanguageLabels == {"English", "Japanese"}
BudgetTexts == {<<>>, <<"5">>}
NameTexts == {<<>>, <<"a">>}
HostTexts == {<<>>, <<"h">>}
UrlTexts == {<<"u">>, DEFAULT_ARTIFACTORY_CLI_INSTALL_URL}
SecretTexts == {<<>>, <<"k">>}
RepositoryKeys == {<<>>, <<"a">>}

Next ==
    \/ LoadSettings(Baselines)
    \/ LanguageInputChange(LanguageLabels)
    \/ AnalyticsSwitchToggle
    \/ SoundNotificationsSwitchToggle
    \/ ProactiveConversationsSwitchToggle
    \/ SolvabilityAnalysisSwitchToggle
    \/ MaxBudgetPerTaskInputChange(BudgetTexts)
    \/ GitUserNameInputChange(NameTexts)
    \/ GitUserEmailInputChange(NameTexts)
    \/ ArtifactoryHostInputChange(HostTexts)
    \/ ArtifactoryCliInstallUrlInputChange(UrlTexts)
    \/ ArtifactoryApiKeyInputChange(SecretTexts)
    \/ ClearArtifactoryApiKeySwitchToggle
    \/ ArtifactoryTypeChange
    \/ ArtifactoryRepositoryChange(RepositoryKeys)
    \/ RemoveArtifactoryIntegration
    \/ AddArtifactoryIntegration
    \/ formAction
    \/ SaveSucceeds
    \/ SaveFails

Spec == Init /\ [][Next]_vars

\* The secret alone, with the baseline changing underfoot.
SecretTypedTexts == {<<>>, <<"k">>, <<" ">>, <<"k", " ">>}

NextSecret ==
    \/ LoadSettings(Baselines)
    \/ RefetchSettings(Baselines)
    \/ ArtifactoryApiKeyInputChange(SecretTypedTexts)
    \/ ClearArtifactoryApiKeySwitchToggle
    \/ ArtifactoryHostInputChange(HostTexts)
    \/ formAction
    \/ SaveSucceeds
    \/ SaveFails

SpecSecret == Init /\ [][NextSecret]_vars

\* The scalar fields alone, over every baseline and with texts that differ
\* from the baseline only by blanks or by the fallback.
ScalarLanguageLabels == {"English", "Japanese", "Klingon"}
ScalarBudgetTexts == {<<>>, <<"5">>, <<"0">>, <<"1", "0">>}
ScalarNameTexts == {<<>>, <<"a">>, <<"a", " ">>, DEFAULT_SETTINGS.GIT_USER_NAME}
ScalarEmailTexts == {<<>>, <<"a">>, DEFAULT_SETTINGS.GIT_USER_EMAIL}
ScalarHostTexts == {<<>>, <<"h">>, <<"h", " ">>}
ScalarUrlTexts == {<<"u">>, <<" ", "u">>, DEFAULT_ARTIFACTORY_CLI_INSTALL_URL}

NextScalar ==
    \/ LoadSettings(AllBaselines)
    \/ LanguageInputChange(ScalarLanguageLabels)
    \/ AnalyticsSwitchToggle
    \/ SoundNotificationsSwitchToggle
    \/ ProactiveConversationsSwitchToggle
    \/ SolvabilityAnalysisSwitchToggle
    \/ MaxBudgetPerTaskInputChange(ScalarBudgetTexts)
    \/ GitUserNameInputChange(ScalarNameTexts)
    \/ GitUserEmailInputChange(ScalarEmailTexts)
    \/ ArtifactoryHostInputChange(ScalarHostTexts)
    \/ ArtifactoryCliInstallUrlInputChange(ScalarUrlTexts)
    \/ formAction
    \/ SaveSucceeds
    \/ SaveFails

SpecScalar == Init /\ [][NextScalar]_vars

\* ------------------------------------- the repository-map functions alone

\* The longest list of rows handed to integrationsToRepositoryMap.
MaxRows == 3

\* repositoryType and repositoryKey of an ArtifactoryRepositoryIntegration.
RowTypeInputs == {"", "pypi", "npm"}
RowKeyInputs == {<<>>, <<"a">>, <<"b", " ">>}

\* Every ArtifactoryRepositoryIntegration[] of at most MaxRows rows; the
\* type of the parameter does not ask for distinct categories.
RowListInputs ==
    UNION { [ 1..n -> [ repositoryType : RowTypeInputs,
                        repositoryKey : RowKeyInputs ] ] : n \in 0..MaxRows }

WithRandomIds(rows) ==
    [ i \in DOMAIN rows |->
        createIntegration(rows[i].repositoryType, rows[i].repositoryKey,
                          IntegrationId(RandomSuffixes[i])) ]

\* Values of Partial<Record<ArtifactoryRepositoryType, string>> | undefined.
RepositoryMapInputs ==
    { UndefinedMap,
      <<>>,
      << [type |-> "pypi", key |-> <<"a">>] >>,
      << [type |-> "pypi", key |-> <<"a", " ">>] >>,
      << [type |-> "pypi", key |-> <<" ">>] >>,
      << [type |-> "npm", key |-> <<"b">>] >>,
      << [type |-> "npm", key |-> <<"b">>], [type |-> "pypi", key |-> <<"a">>] >>,
      << [type |-> "pypi", key |-> <<"a">>], [type |-> "npm", key |-> <<"b", " ">>] >>,
      << [type |-> "pypi", key |-> <<"a">>], [type |-> "npm", key |-> <<>>] >> }

\* The screen with a document whose repository map is `map`, showing `rows`.
InitMaps ==
    \E map \in RepositoryMapInputs, rows \in RowListInputs :
        /\ settings = [ConfiguredDocument EXCEPT !.ARTIFACTORY_REPOSITORIES = map]
        /\ isLoading = FALSE
        /\ isPending = FALSE
        /\ config = "oss"
        /\ repoTypesFromApi = Undefined
        /\ flags = [name \in FlagNames |-> FALSE]
        /\ artifactoryApiKeyInputValue = <<>>
        /\ artifactoryIntegrations = WithRandomIds(rows)
        /\ form = FormDefaults(settings)
        /\ payload = <<>>
        /\ calls = <<>>
        /\ secretStep = 0
        /\ typesResponse = NoTypesResponse
        /\ search = NoSearch

\* The memos of lines 208-220 are read by the submit button and the payload.
NextMaps ==
    \/ formAction
    \/ SaveSucceeds
    \/ SaveFails

SpecMaps == InitMaps /\ [][NextMaps]_vars

\* ------------------------------------------- the integration rows alone

\* The lists useArtifactoryRepositoryTypes hands over: what
\* normalizeRepositoryTypes leaves of the server's answer, a duplicate-free,
\* non-empty list of supported types.
RepositoryTypeAnswers ==
    LET supported == SUPPORTED_ARTIFACTORY_REPO_TYPES
        n == Len(supported)
    IN  { SubSeq(supported, 1, k) : k \in 1..n }
            \cup { SubSeq(supported, k, n) : k \in 1..n }

\* The repository-type query resolves, or resolves again with another list.
RepositoryTypesArrive ==
    \E types \in RepositoryTypeAnswers :
        /\ types # repoTypesFromApi
        /\ repoTypesFromApi' = types
        /\ calls' = <<>>
        /\ UNCHANGED << typesResponse, search, settings, isLoading, isPending, config, flags,
                        artifactoryApiKeyInputValue, artifactoryIntegrations,
                        form, payload, secretStep >>

\* What a row's select can report besides its options: the value of the
\* placeholder option, which is also what the DOM reports for a value that is
\* no option.
UnlistedSelectValues == {""}

\* The select of a row fires onChange with a value that is no listed option.
ArtifactoryTypeChangeUnlisted ==
    \E i \in DOMAIN artifactoryIntegrations :
        \E value \in UnlistedSelectValues :
            /\ ~shouldBeLoading
            /\ value # artifactoryIntegrations[i].repositoryType
            /\ artifactoryIntegrations' =
                   handleArtifactoryTypeChange(
                       artifactoryIntegrations, artifactoryIntegrations[i].id, value)
            /\ calls' = <<>>
            /\ RowFrame

\* The screen mounts before the repository-type query has answered.
InitRows == InitWith(Undefined)

NextRows ==
    \/ LoadSettings(AllBaselines)
    \/ RefetchSettings(AllBaselines)
    \/ RepositoryTypesArrive
    \/ ArtifactoryTypeChange
    \/ ArtifactoryTypeChangeUnlisted
    \/ ArtifactoryRepositoryChange(RepositoryKeys)
    \/ RemoveArtifactoryIntegration
    \/ AddArtifactoryIntegration

SpecRows == InitRows /\ [][NextRows]_vars

\* ------------------------------------- the search input of the first row

\* inputValue: set with the row's key by onInputValueChange and
\* onSelectedItemChange, and set to the value prop by the effect of lines
\* 45-47, so it is the first row's key.
inputValue == artifactoryIntegrations[1].repositoryKey

\* disabled || !repositoryType, with disabled={!integration.repositoryType}.
searchIsDisabled(repositoryType) == repositoryType = ""

\* queryKey without the query text.
queryKeyWithoutQuery(query, repositoryType, limit) ==
    [ type |-> IF repositoryType = "" THEN "null" ELSE repositoryType,
      query |-> <<>>,
      limit |-> limit ]

\* queryKey of useArtifactoryRepositorySearch, after its constant prefix.
queryKey(query, repositoryType, limit) ==
    [ type |-> IF repositoryType = "" THEN "null" ELSE repositoryType,
      query |-> query,
      limit |-> limit ]

\* enabled that ignores the disabled argument.
enabledIgnoringDisabled(query, disabled) == Trim(query) # <<>>

\* enabled: !!query.trim() && !disabled
enabled(query, disabled) == Trim(query) # <<>> /\ ~disabled

\* The repository names the server knows, by type.
RepositoryNames ==
    [ type \in {"pypi", "npm"} |->
        IF type = "pypi" THEN << <<"a">>, <<"a", "b">> >> ELSE << <<"a", "b">> >> ]

StartsWith(name, prefix) ==
    /\ Len(prefix) <= Len(name)
    /\ SubSeq(name, 1, Len(prefix)) = prefix

\* SettingsService.searchArtifactoryRepositories: the server's answer, the
\* names of the type that start with the query.
searchArtifactoryRepositories(query, repositoryType, limit) ==
    IF repositoryType \in DOMAIN RepositoryNames
    THEN LET Matches(name) == StartsWith(name, Trim(query))
         IN  SelectSeq(RepositoryNames[repositoryType], Matches)
    ELSE <<>>

\* The data of the query, `repositories = []` while the cache has none for
\* the current key.
CachedData(cache, key) ==
    IF \E entry \in cache : entry.key = key
    THEN (CHOOSE entry \in cache : entry.key = key).data
    ELSE <<>>

\* The query text handed to the hook, were it the undebounced inputValue.
observedQueryUndebounced(s, integrations) == integrations[1].repositoryKey

\* The first argument of useArtifactoryRepositorySearch, line 40.
observedQuery(s, integrations) == s.debouncedQuery

\* The key the query observes in a render.
observedKey(s, integrations) ==
    queryKey(observedQuery(s, integrations), integrations[1].repositoryType,
             SearchLimit)

repositories == CachedData(search.cache, observedKey(search, artifactoryIntegrations))

\* useQuery observing (query, repositoryType): a request is issued when the
\* query is enabled and the cache holds neither a result nor a request under
\* way for its key.
FetchIfNeeded(s, query, repositoryType) ==
    LET key == queryKey(query, repositoryType, SearchLimit)
        request == [ key |-> key, query |-> query, type |-> repositoryType ]
    IN  IF /\ enabled(query, searchIsDisabled(repositoryType))
           /\ ~\E entry \in s.cache : entry.key = key
           /\ ~\E other \in s.inFlight : other.key = key
        THEN [ s EXCEPT !.inFlight = @ \cup {request},
                        !.lastRequest = <<request>>,
                        !.burstRequests = @ + 1 ]
        ELSE s

\* The render after a change: the query looks at the cache again when its
\* key is another one.
Observe(before, integrationsBefore, after, integrationsAfter) ==
    IF observedKey(after, integrationsAfter)
           # observedKey(before, integrationsBefore)
    THEN FetchIfNeeded(after, observedQuery(after, integrationsAfter),
                       integrationsAfter[1].repositoryType)
    ELSE after

SearchFrame ==
    UNCHANGED << typesResponse, settings, isLoading, isPending, config, repoTypesFromApi, flags,
                 artifactoryApiKeyInputValue, form, payload, secretStep >>

\* onInputValueChange and onSelectedItemChange, lines 60-70: the input has
\* another value; the parent's row follows and the debounce starts over.
SearchInputBecomes(value) ==
    /\ ~shouldBeLoading
    /\ artifactoryIntegrations # <<>>
    /\ ~searchIsDisabled(artifactoryIntegrations[1].repositoryType)
    /\ value # inputValue
    /\ artifactoryIntegrations' =
           handleArtifactoryRepositoryChange(
               artifactoryIntegrations, artifactoryIntegrations[1].id, value)
    /\ search' =
           Observe(search, artifactoryIntegrations,
                   [ search EXCEPT
                       !.elapsed = 0,
                       !.burst = "typing",
                       !.burstRequests = IF search.burst = "typing" THEN @ ELSE 0,
                       !.lastRequest = IF search.burst = "typing" THEN @ ELSE <<>> ],
                   artifactoryIntegrations')
    /\ calls' = <<>>
    /\ SearchFrame

\* The user types in the search input.
SearchInputValueChange(Keys) ==
    \E value \in Keys : SearchInputBecomes(value)

\* The user picks one of the suggestions shown.
SearchSelectItem ==
    \E i \in DOMAIN repositories : SearchInputBecomes(repositories[i])

\* The select of the first row changes its category while the search input
\* is mounted: the props repositoryType, value and disabled change, the
\* effect of lines 45-47 copies the value, and the query observes a new key.
SearchRowTypeChange ==
    LET integration == artifactoryIntegrations[1]
        options == availableOptions(integration)
    IN  \E value \in { options[o] : o \in DOMAIN options } \cup UnlistedSelectValues :
            LET next == handleArtifactoryTypeChange(
                            artifactoryIntegrations, integration.id, value)
                restarted == [ search EXCEPT
                                 !.elapsed = IF next[1].repositoryKey # inputValue
                                             THEN 0 ELSE @,
                                 !.burst = "idle",
                                 !.burstRequests = 0,
                                 !.lastRequest = <<>> ]
            IN  /\ ~shouldBeLoading
                /\ value # integration.repositoryType
                /\ artifactoryIntegrations' = next
                /\ search' = Observe(search, artifactoryIntegrations,
                                     restarted, next)
                /\ calls' = <<>>
                /\ SearchFrame

\* Amounts of time that pass between two events, in milliseconds.
TimeSteps == {100, 300}

\* Time passes without a change of inputValue; when the quiet period is
\* over the debounced value follows inputValue and the query observes the
\* new key.
Tick ==
    \E d \in TimeSteps :
        LET e == IF search.elapsed + d < DebounceDelay
                 THEN search.elapsed + d ELSE DebounceDelay
            fired == [ search EXCEPT
                         !.elapsed = DebounceDelay,
                         !.debouncedQuery = inputValue,
                         !.burst = IF @ = "typing" THEN "settled" ELSE @ ]
        IN  /\ artifactoryIntegrations # <<>>
            /\ search.elapsed < DebounceDelay
            /\ search' = IF e < DebounceDelay
                         THEN [search EXCEPT !.elapsed = e]
                         ELSE Observe(search, artifactoryIntegrations,
                                      fired, artifactoryIntegrations)
            /\ calls' = <<>>
            /\ UNCHANGED artifactoryIntegrations
            /\ SearchFrame

\* A request under way completes: its result is stored under its key.
SearchResolves ==
    \E request \in search.inFlight :
        /\ search' = [ search EXCEPT
                         !.inFlight = @ \ {request},
                         !.cache = { entry \in @ : entry.key # request.key }
                                       \cup { [ key |-> request.key,
                                                data |-> searchArtifactoryRepositories(
                                                             request.query, request.type,
                                                             request.key.limit) ] } ]
        /\ calls' = <<>>
        /\ UNCHANGED artifactoryIntegrations
        /\ SearchFrame

\* A request under way fails for good: nothing is stored.
SearchRejects ==
    \E request \in search.inFlight :
        /\ search' = [search EXCEPT !.inFlight = @ \ {request}]
        /\ calls' = <<>>
        /\ UNCHANGED artifactoryIntegrations
        /\ SearchFrame

\* The form has just mounted on a baseline with one repository: the search
\* input starts with debouncedQuery equal to the row's key and the query
\* issues its first request.
InitSearch ==
    /\ settings = ConfiguredDocument
    /\ isLoading = FALSE
    /\ isPending = FALSE
    /\ config = "oss"
    /\ repoTypesFromApi = Undefined
    /\ flags = [name \in FlagNames |-> FALSE]
    /\ artifactoryApiKeyInputValue = <<>>
    /\ artifactoryIntegrations =
           mapRepositoriesToIntegrations(settings.ARTIFACTORY_REPOSITORIES)
    /\ form = FormDefaults(settings)
    /\ payload = <<>>
    /\ calls = <<>>
    /\ secretStep = 0
    /\ typesResponse = NoTypesResponse
    /\ search = FetchIfNeeded(
                    [NoSearch EXCEPT !.debouncedQuery = inputValue,
                                     !.burstRequests = 0],
                    inputValue, artifactoryIntegrations[1].repositoryType)

\* What the user types into the search input.
SearchKeys == {<<>>, <<"a">>, <<"a", "b">>, <<" ">>}

NextSearch ==
    \/ SearchInputValueChange(SearchKeys)
    \/ SearchSelectItem
    \/ SearchRowTypeChange
    \/ Tick
    \/ SearchResolves
    \/ SearchRejects

SpecSearch == InitSearch /\ [][NextSearch]_vars

\* The baseline changing underfoot while fields of both kinds are dirty:
\* the artifactory host, which the effect of lines 222-232 resets, and the
\* git user name, which it does not.
NextRefetch ==
    \/ LoadSettings(AllBaselines)
    \/ RefetchSettings(AllBaselines)
    \/ GitUserNameInputChange(NameTexts)
    \/ ArtifactoryHostInputChange(HostTexts)
    \/ ArtifactoryRepositoryChange(RepositoryKeys)
    \/ formAction
    \/ SaveSucceeds
    \/ SaveFails

SpecRefetch == Init /\ [][NextRefetch]_vars

\* The rows while a save goes out and comes back: two categories, every
\* baseline, rows added, edited and removed, the form submitted.
NextRowsSave ==
    \/ LoadSettings(AllBaselines)
    \/ ArtifactoryTypeChange
    \/ ArtifactoryRepositoryChange(RepositoryKeys)
    \/ RemoveArtifactoryIntegration
    \/ AddArtifactoryIntegration
    \/ formAction
    \/ SaveSucceeds
    \/ SaveFails

SpecRowsSave == InitRows /\ [][NextRowsSave]_vars

\* ------------------------------------------- the repository-type answer

\* toLowerCase on one character: the capital letters the answers use.
LowerCaseLetter(c) ==
    CASE c = "P" -> "p"
      [] c = "Y" -> "y"
      [] c = "I" -> "i"
      [] c = "N" -> "n"
      [] c = "M" -> "m"
      [] OTHER -> c

\* String.prototype.toLowerCase on a sequence of characters.
ToLowerCase(text) == [ i \in DOMAIN text |-> LowerCaseLetter(text[i]) ]

\* The string a sequence of characters spells.
RECURSIVE Text(_)
Text(chars) == IF chars = <<>> THEN "" ELSE Head(chars) \o Text(Tail(chars))

\* Array.from(new Set(list)): the first occurrence of each element, in order.
RECURSIVE Unique(_)
Unique(list) ==
    IF list = <<>>
    THEN <<>>
    ELSE LET front == Unique(SubSeq(list, 1, Len(list) - 1))
             last == list[Len(list)]
         IN  IF \E i \in DOMAIN front : front[i] = last
             THEN front
             ELSE Append(front, last)

\* normalizeRepositoryTypes without the Set that removes duplicates.
normalizeRepositoryTypesKeepingDuplicates(types) ==
    LET supported == { SUPPORTED_ARTIFACTORY_REPO_TYPES[i] :
                         i \in DOMAIN SUPPORTED_ARTIFACTORY_REPO_TYPES }
        Has(type) == type \in supported
        normalized ==
            SelectSeq([ i \in DOMAIN types |-> Text(ToLowerCase(Trim(types[i]))) ],
                      Has)
    IN  IF Len(normalized) > 0 THEN normalized ELSE SUPPORTED_ARTIFACTORY_REPO_TYPES

\* normalizeRepositoryTypes; SUPPORTED_TYPES of the hook is the same
\* Object.values(ArtifactoryRepositoryTypes) as SUPPORTED_ARTIFACTORY_REPO_TYPES.
normalizeRepositoryTypes(types) ==
    LET supported == { SUPPORTED_ARTIFACTORY_REPO_TYPES[i] :
                         i \in DOMAIN SUPPORTED_ARTIFACTORY_REPO_TYPES }
        Has(type) == type \in supported
        normalized ==
            SelectSeq([ i \in DOMAIN types |-> Text(ToLowerCase(Trim(types[i]))) ],
                      Has)
        unique == Unique(normalized)
    IN  IF Len(unique) > 0 THEN unique ELSE SUPPORTED_ARTIFACTORY_REPO_TYPES

\* The longest answer of the server.
MaxTypesAnswer == 3

\* The strings of an answer: a supported type as it is and with capitals and
\* surrounding blanks, another supported type in capitals, a type the client
\* does not support, and the empty string.
RawTypeInputs ==
    { <<"p", "y", "p", "i">>, <<" ", "P", "y", "P", "I", " ">>,
      <<"N", "P", "M">>, <<"d", "e", "b">>, <<>> }

RECURSIVE ListsOver(_, _)
ListsOver(S, n) ==
    IF n = 0
    THEN { <<>> }
    ELSE LET shorter == ListsOver(S, n - 1)
         IN  shorter \cup { Append(list, x) : list \in shorter, x \in S }

\* What GET /api/settings/artifactory/repository-types may answer.
TypesAnswers == ListsOver(RawTypeInputs, MaxTypesAnswer)

TypesFrame ==
    UNCHANGED << search, settings, isLoading, isPending, config, flags,
                 artifactoryApiKeyInputValue, artifactoryIntegrations, form,
                 payload, secretStep >>

\* The queryFn of useArtifactoryRepositoryTypes resolves: the answer is
\* normalized and becomes the data of the query.
RepositoryTypesResolve ==
    /\ typesResponse.pending
    /\ repoTypesFromApi' = normalizeRepositoryTypes(typesResponse.types)
    /\ typesResponse' = [typesResponse EXCEPT !.pending = FALSE]
    /\ calls' = <<>>
    /\ TypesFrame

\* The query is fetched again and the server has another answer.
RepositoryTypesRefetch ==
    \E types \in TypesAnswers :
        /\ ~typesResponse.pending
        /\ types # typesResponse.types
        /\ typesResponse' = [ pending |-> TRUE, types |-> types ]
        /\ calls' = <<>>
        /\ UNCHANGED repoTypesFromApi
        /\ TypesFrame

\* The screen mounts while the first answer is awaited.
InitTypes ==
    /\ settings = NoSettings
    /\ isLoading \in BOOLEAN
    /\ isPending = FALSE
    /\ config \in AppModes
    /\ repoTypesFromApi = Undefined
    /\ flags = [name \in FlagNames |-> FALSE]
    /\ artifactoryApiKeyInputValue = <<>>
    /\ artifactoryIntegrations = <<>>
    /\ form = Unmounted
    /\ payload = <<>>
    /\ calls = <<>>
    /\ secretStep = 0
    /\ search = NoSearch
    /\ typesResponse \in { [ pending |-> TRUE, types |-> types ] :
                             types \in TypesAnswers }

NextTypes ==
    \/ RepositoryTypesResolve
    \/ RepositoryTypesRefetch

SpecTypes == InitTypes /\ [][NextTypes]_vars

\* The configured document after the secret was removed elsewhere: only
\* ARTIFACTORY_API_KEY_SET differs.
KeyRemovedDocument ==
    [ConfiguredDocument EXCEPT !.ARTIFACTORY_API_KEY_SET = "false"]

ClearBaselines == {FreshDocument, ConfiguredDocument, KeyRemovedDocument}

\* The secret and its clear switch while the baseline's secret-set flag
\* comes and goes.
NextClear ==
    \/ LoadSettings(ClearBaselines)
    \/ RefetchSettings(ClearBaselines)
    \/ ArtifactoryApiKeyInputChange(SecretTypedTexts)
    \/ ClearArtifactoryApiKeySwitchToggle
    \/ formAction
    \/ SaveSucceeds
    \/ SaveFails

SpecClear == Init /\ [][NextClear]_vars

\* ------------------------------------------------------------------ claims

AnyFlagIsSet ==
    \/ \E name \in FlagNames : flags[name]
    \/ artifactoryReposHaveChanged

\* A save settles in this step with the error callback.
SaveFailsStep ==
    /\ isPending
    /\ ~isPending'
    /\ calls'[1].fn = "displayErrorToast"

\* C1: when a save fails, every dirty flag, the typed secret and the
\* clear-request flag keep the values they had when the form was submitted.
C1_FailureKeepsFlags ==
    [][ SaveFailsStep =>
            /\ flags' = flags
            /\ artifactoryApiKeyInputValue' = artifactoryApiKeyInputValue ]_vars

\* The state right after a save settled with the success callback.
SaveHasSucceeded ==
    /\ Len(calls) = 2
    /\ calls[2].fn = "displaySuccessToast"

\* C2: after a successful save every tracked flag is false, the stored secret
\* input value is empty and the clear-request flag is false.
C2_SuccessResetsEveryFlag ==
    SaveHasSucceeded =>
        /\ \A name \in FlagNames : ~flags[name]
        /\ artifactoryApiKeyInputValue = <<>>

\* C3: the form is clean exactly when every individual flag, the clear-request
\* flag and the derived repository-map flag are all false.
C3_CleanIffNoFlag ==
    formIsClean <=>
        /\ \A name \in FlagNames : ~flags[name]
        /\ ~artifactoryReposHaveChanged

\* C3 witness: only the derived repository-map flag makes the form dirty.
C3_Witness ==
    /\ settings.defined
    /\ \A name \in FlagNames : ~flags[name]
    /\ artifactoryReposHaveChanged
    /\ ~formIsClean

\* C4: the submit button is disabled whenever no baseline is loaded, a save is
\* in flight or the form is clean.
C4_SubmitDisabled ==
    (~settings.defined \/ isPending \/ formIsClean) => submitIsDisabled

\* C4 witness: a dirty form whose save is in flight.
C4_Witness ==
    /\ settings.defined
    /\ isPending
    /\ ~formIsClean
    /\ submitIsDisabled

\* C5 as stated: the submit button is enabled whenever a flag is set and a
\* baseline exists.
C5_EnabledWheneverDirty ==
    (settings.defined /\ AnyFlagIsSet) => ~submitIsDisabled

\* C5 amended: the submit button is enabled whenever a flag is set, a baseline
\* exists and no save is in flight.
C5_EnabledWhenDirtyAndIdle ==
    (settings.defined /\ ~isPending /\ AnyFlagIsSet) => ~submitIsDisabled

\* C5 witness: exactly one flag is set on an idle, loaded form.
C5_Witness ==
    /\ settings.defined
    /\ ~isPending
    /\ flags.artifactoryClearApiKey
    /\ \A name \in FlagNames \ {"artifactoryClearApiKey"} : ~flags[name]
    /\ ~artifactoryReposHaveChanged
    /\ ~submitIsDisabled

\* The form is submitted in this step.
SubmitStep == ~isPending /\ isPending'

\* C6: the payload has the secret field exactly when the clear-request flag or
\* the changed flag is set at submit time; it is empty when clearing is
\* requested, the trimmed typed value when only changed is set, and absent when
\* the user neither typed a non-empty secret nor asked to clear.
C6_SecretPayload ==
    [][ SubmitStep =>
            LET key == payload'[1].artifactory_api_key
                typed == Trim(form["artifactory-api-key-input"])
            IN  /\ (key # Undefined) <=>
                       (flags.artifactoryClearApiKey
                            \/ flags.artifactoryApiKeyHasChanged)
                /\ flags.artifactoryClearApiKey => key = <<>>
                /\ (flags.artifactoryApiKeyHasChanged
                        /\ ~flags.artifactoryClearApiKey) => key = typed
                /\ (typed = <<>> /\ ~form["clear-artifactory-api-key-switch"])
                       => key = Undefined ]_vars

\* C6 witness: a payload in flight that clears the secret although a value
\* was typed.
C6_Witness ==
    /\ isPending
    /\ flags.artifactoryClearApiKey
    /\ Trim(artifactoryApiKeyInputValue) # <<>>
    /\ payload[1].artifactory_api_key = <<>>

\* C7: after typing a non-empty secret, toggling clear on and toggling it off
\* again, the changed flag is true, the clear-request flag is false and a
\* submit carries the typed value.
C7_TypeClearUnclear ==
    secretStep = 3 =>
        /\ flags.artifactoryApiKeyHasChanged
        /\ ~flags.artifactoryClearApiKey
        /\ formActionPayload.artifactory_api_key # <<>>
        /\ formActionPayload.artifactory_api_key =
               Trim(form["artifactory-api-key-input"])

\* C7 witness: the three steps have been taken.
C7_Witness ==
    /\ secretStep = 3
    /\ Trim(artifactoryApiKeyInputValue) # <<>>

\* C8: whenever the clear-request flag is true the changed flag is true.
C8_ClearImpliesChanged ==
    flags.artifactoryClearApiKey => flags.artifactoryApiKeyHasChanged

\* The flag each scalar input's change handler sets.
FlagOfInput ==
    [ name \in { "language-input", "enable-analytics-switch",
                 "enable-sound-notifications-switch",
                 "enable-proactive-conversations-switch",
                 "enable-solvability-analysis-switch", "git-user-name-input",
                 "git-user-email-input", "artifactory-host-input",
                 "artifactory-cli-install-url-input" } |->
        CASE name = "language-input" -> "languageInputHasChanged"
          [] name = "enable-analytics-switch" -> "analyticsSwitchHasChanged"
          [] name = "enable-sound-notifications-switch" ->
               "soundNotificationsSwitchHasChanged"
          [] name = "enable-proactive-conversations-switch" ->
               "proactiveConversationsSwitchHasChanged"
          [] name = "enable-solvability-analysis-switch" ->
               "solvabilityAnalysisSwitchHasChanged"
          [] name = "git-user-name-input" -> "gitUserNameHasChanged"
          [] name = "git-user-email-input" -> "gitUserEmailHasChanged"
          [] name = "artifactory-host-input" -> "artifactoryHostHasChanged"
          [] name = "artifactory-cli-install-url-input" ->
               "artifactoryCliInstallUrlHasChanged" ]

\* The value of an input equals the normalized baseline: a string trimmed, a
\* missing optional string replaced by its fallback, a language label
\* resolved to its code.
EqualsNormalizedBaseline(name, value) ==
    CASE name = "language-input" ->
           LanguageValueOfLabel(value) = settings.LANGUAGE
      [] name = "enable-analytics-switch" ->
           value = Truthy(settings.USER_CONSENTS_TO_ANALYTICS)
      [] name = "enable-sound-notifications-switch" ->
           value = Truthy(settings.ENABLE_SOUND_NOTIFICATIONS)
      [] name = "enable-proactive-conversations-switch" ->
           value = Truthy(settings.ENABLE_PROACTIVE_CONVERSATION_STARTERS)
      [] name = "enable-solvability-analysis-switch" ->
           value = Truthy(settings.ENABLE_SOLVABILITY_ANALYSIS)
      [] name = "git-user-name-input" ->
           value = Trim(Coalesce(settings.GIT_USER_NAME,
                                 DEFAULT_SETTINGS.GIT_USER_NAME))
      [] name = "git-user-email-input" ->
           value = Trim(Coalesce(settings.GIT_USER_EMAIL,
                                 DEFAULT_SETTINGS.GIT_USER_EMAIL))
      [] name = "artifactory-host-input" ->
           value = Trim(Coalesce(settings.ARTIFACTORY_HOST, <<>>))
      [] name = "artifactory-cli-install-url-input" ->
           value = Trim(Coalesce(settings.ARTIFACTORY_CLI_INSTALL_URL,
                                 DEFAULT_SETTINGS.ARTIFACTORY_CLI_INSTALL_URL))

\* The user gives the mounted input `name` another value in this step.
InputChangeStep(name) ==
    /\ ~shouldBeLoading
    /\ ~shouldBeLoading'
    /\ form'[name] # form[name]

\* C9: after a scalar field is changed to a value equal to its normalized
\* baseline, that field's dirty flag is false.
C9_NormalizedBaselineIsClean ==
    [][ \A name \in DOMAIN FlagOfInput :
            (InputChangeStep(name) /\ EqualsNormalizedBaseline(name, form'[name]))
                => ~flags'[FlagOfInput[name]] ]_vars

\* C10: with a baseline budget of null, a change of the budget text sets the
\* budget flag exactly when the text parses to a number, reports no error,
\* and a submit carries the parsed number.
C10_NullBudgetBaseline ==
    [][ (settings.defined /\ settings.MAX_BUDGET_PER_TASK = NullBudget) =>
            /\ InputChangeStep("max-budget-per-task-input") =>
                   /\ flags'.maxBudgetPerTaskHasChanged <=>
                          (parseMaxBudgetPerTask(form'["max-budget-per-task-input"])
                               # NullBudget)
                   /\ calls' = <<>>
            /\ SubmitStep =>
                   payload'[1].MAX_BUDGET_PER_TASK =
                       parseMaxBudgetPerTask(form["max-budget-per-task-input"]) ]_vars

\* C10 witness: a non-empty text that the parser maps to null has been typed
\* over a null baseline, and the budget flag is false.
C10_Witness ==
    /\ settings.defined
    /\ settings.MAX_BUDGET_PER_TASK = NullBudget
    /\ ~shouldBeLoading
    /\ form["max-budget-per-task-input"] = <<"0">>
    /\ ~flags.maxBudgetPerTaskHasChanged

\* Every reordering of a list of rows.
RowPermutations(rows) ==
    LET n == Len(rows)
        Bijections == { p \in [1..n -> 1..n] : \A i, j \in 1..n : p[i] = p[j] => i = j }
    IN  { [ i \in 1..n |-> rows[p[i]] ] : p \in Bijections }

\* Two repository maps hold the same entries, whatever the insertion order.
SameRepositoryMap(a, b) ==
    { a[i] : i \in DOMAIN a } = { b[i] : i \in DOMAIN b }

\* integrationsToRepositoryMap and the derived flag do not depend on the
\* order of `rows`.
OrderIndependent(rows) ==
    \A permuted \in RowPermutations(rows) :
        /\ SameRepositoryMap(integrationsToRepositoryMap(permuted),
                             integrationsToRepositoryMap(rows))
        /\ repositoryMapsEqual(settings.ARTIFACTORY_REPOSITORIES,
                               integrationsToRepositoryMap(permuted))
               = repositoryMapsEqual(settings.ARTIFACTORY_REPOSITORIES,
                                     integrationsToRepositoryMap(rows))

\* No two rows name the same category.
CategoriesAreDistinct(rows) ==
    \A i, j \in DOMAIN rows :
        (i # j /\ rows[i].repositoryType # "")
            => rows[i].repositoryType # rows[j].repositoryType

KeptEntries(map) ==
    IF map = UndefinedMap
    THEN {}
    ELSE { [type |-> map[i].type, key |-> Trim(map[i].key)] :
             i \in { j \in DOMAIN map : Trim(map[j].key) # <<>> } }

\* C12: repositoryMapsEqual(a, b) is true exactly when, after dropping the
\* entries whose trimmed value is empty, a and b have the same category keys
\* and the same trimmed value for each; an undefined map counts as empty.
C12_EqualIffSameKeptEntries ==
    \A b \in RepositoryMapInputs \cup {artifactoryRepositoriesPayload} :
        /\ repositoryMapsEqual(settings.ARTIFACTORY_REPOSITORIES, b)
               <=> (KeptEntries(settings.ARTIFACTORY_REPOSITORIES) = KeptEntries(b))
        /\ repositoryMapsEqual(b, settings.ARTIFACTORY_REPOSITORIES)
               <=> (KeptEntries(b) = KeptEntries(settings.ARTIFACTORY_REPOSITORIES))

\* C12 witness: a baseline whose only value is blank equals the map of rows
\* that yield no entry.
C12_Witness ==
    /\ settings.ARTIFACTORY_REPOSITORIES = << [type |-> "pypi", key |-> <<" ">>] >>
    /\ Len(artifactoryIntegrations) = 2
    /\ artifactoryRepositoriesPayload = <<>>
    /\ ~artifactoryReposHaveChanged

\* The elements of a sequence.
Range(seq) == { seq[i] : i \in DOMAIN seq }

\* The values the select of a row can hand to handleArtifactoryTypeChange:
\* the options it lists and the placeholder's empty value.
SelectValues(integration) ==
    Range(availableOptions(integration)) \cup UnlistedSelectValues

\* C13: changing a row's category to another one empties that row's key,
\* choosing the same category again keeps the key, and the other rows keep
\* their identifier, category and key.
C13_TypeChangeEmptiesKey ==
    \A i \in DOMAIN artifactoryIntegrations :
        \A value \in SelectValues(artifactoryIntegrations[i]) :
            LET integration == artifactoryIntegrations[i]
                next == handleArtifactoryTypeChange(
                            artifactoryIntegrations, integration.id, value)
            IN  /\ DOMAIN next = DOMAIN artifactoryIntegrations
                /\ next[i].id = integration.id
                /\ value # integration.repositoryType
                       => next[i].repositoryKey = <<>>
                /\ value = integration.repositoryType
                       => next[i].repositoryKey = integration.repositoryKey
                /\ \A j \in DOMAIN next :
                       j # i => next[j] = artifactoryIntegrations[j]

\* C13 witness: a baseline row switched to another category has lost its
\* key, next to a row that still has its own.
C13_Witness ==
    /\ Len(artifactoryIntegrations) = 2
    /\ \E i, j \in DOMAIN artifactoryIntegrations :
           /\ artifactoryIntegrations[i].id = IntegrationId("pypi")
           /\ artifactoryIntegrations[i].repositoryType = "npm"
           /\ artifactoryIntegrations[i].repositoryKey = <<>>
           /\ artifactoryIntegrations[j].id # IntegrationId("pypi")
           /\ artifactoryIntegrations[j].repositoryKey # <<>>

\* Values a caller may pass as the chosen category.
TypeCandidates == Range(AllArtifactoryRepositoryTypes) \cup {"", "bogus"}

\* The categories of the baseline's repository map.
BaselineTypes(document) ==
    IF document.ARTIFACTORY_REPOSITORIES = UndefinedMap
    THEN {}
    ELSE { document.ARTIFACTORY_REPOSITORIES[i].type :
             i \in DOMAIN document.ARTIFACTORY_REPOSITORIES }

\* C14: a chosen category that is not in the valid set is not rejected but
\* makes the row's category empty; and in every step each row's category is
\* afterwards empty, a member of the valid set of that moment, what the row
\* had before, or what the row got from the baseline.
C14_InvalidTypeBecomesEmpty ==
    [][ /\ \A i \in DOMAIN artifactoryIntegrations :
               \A value \in TypeCandidates :
                   LET next == handleArtifactoryTypeChange(
                                   artifactoryIntegrations,
                                   artifactoryIntegrations[i].id, value)
                   IN  /\ DOMAIN next = DOMAIN artifactoryIntegrations
                       /\ next[i].id = artifactoryIntegrations[i].id
                       /\ next[i].repositoryType =
                              IF value \in Range(repositoryTypes) THEN value ELSE ""
        /\ \A j \in DOMAIN artifactoryIntegrations' :
               LET row == artifactoryIntegrations'[j]
               IN  \/ row.repositoryType = ""
                   \/ row.repositoryType \in Range(repositoryTypes)
                   \/ \E k \in DOMAIN artifactoryIntegrations :
                          /\ artifactoryIntegrations[k].id = row.id
                          /\ artifactoryIntegrations[k].repositoryType
                                 = row.repositoryType
                   \/ /\ row.repositoryType \in BaselineTypes(settings')
                      /\ row.id = IntegrationId(row.repositoryType) ]_vars

\* C14 witness: a row that came from the baseline has an empty category.
C14_Witness ==
    \E i \in DOMAIN artifactoryIntegrations :
        /\ artifactoryIntegrations[i].id = IntegrationId("pypi")
        /\ artifactoryIntegrations[i].repositoryType = ""
        /\ artifactoryIntegrations[i].repositoryKey = <<>>

\* debouncedQuery changes only when the quiet period ends, and then to the
\* value typed last.
DebouncedOnlyAfterQuietPeriod ==
    search'.debouncedQuery # search.debouncedQuery =>
        /\ search.elapsed < DebounceDelay
        /\ search'.elapsed = DebounceDelay
        /\ inputValue' = inputValue
        /\ search'.debouncedQuery = inputValue

\* No request is issued while the user is still typing.
NoRequestWhileTyping ==
    search'.burst = "typing" => search'.burstRequests = 0

RequestsIssued == search'.inFlight \ search.inFlight

\* C16: no search request is issued while the debounced query is empty or
\* blank, or the input is disabled, or the row has no category, whatever the
\* typed text.
C16_NoRequestWhenSuppressed ==
    [][ \A request \in RequestsIssued :
            /\ Trim(search'.debouncedQuery) # <<>>
            /\ artifactoryIntegrations'[1].repositoryType # ""
            /\ ~searchIsDisabled(artifactoryIntegrations'[1].repositoryType)
            /\ Trim(request.query) # <<>>
            /\ request.type # "" ]_vars

\* C16 witness: the row has lost its category while the debounced query is
\* still a text, and no request without a category is under way.
C16_Witness ==
    /\ artifactoryIntegrations[1].repositoryType = ""
    /\ search.debouncedQuery = <<"a">>
    /\ \A request \in search.inFlight : request.type # ""

\* The suggestions shown are what the server answers for the category and
\* the debounced query of this moment, or nothing.
DisplayedIsCurrent ==
    \/ repositories = <<>>
    \/ repositories =
           searchArtifactoryRepositories(
               search.debouncedQuery, artifactoryIntegrations[1].repositoryType,
               SearchLimit)

\* C17: whatever the order in which requests complete, the suggestions shown
\* are the result stored for the current (category, debounced query, limit)
\* key, and the completion of a request for another key does not change them.
C17_StaleResultNeverShown ==
    [][ /\ DisplayedIsCurrent'
        /\ \A entry \in search'.cache :
               entry.data = searchArtifactoryRepositories(
                                entry.key.query, entry.key.type, entry.key.limit)
        /\ \A request \in search.inFlight \ search'.inFlight :
               (/\ request.key # observedKey(search, artifactoryIntegrations)
                /\ artifactoryIntegrations' = artifactoryIntegrations
                /\ search'.debouncedQuery = search.debouncedQuery)
                   => repositories' = repositories ]_vars

\* C17 witness: results are shown for the current key while the cache also
\* holds a different result for a superseded key.
C17_Witness ==
    /\ repositories # <<>>
    /\ \E entry \in search.cache :
           /\ entry.key # observedKey(search, artifactoryIntegrations)
           /\ entry.key.type = artifactoryIntegrations[1].repositoryType
           /\ entry.data # repositories

\* The baseline document is replaced by another one in this step.
BaselineChanges ==
    /\ settings.defined
    /\ settings'.defined
    /\ settings' # settings

\* C18: whenever the baseline settings document changes, every dirty flag is
\* false afterwards and the aggregate clean flag is true.
C18_BaselineChangeResetsEveryFlag ==
    [][ BaselineChanges =>
            /\ \A name \in FlagNames : ~flags'[name]
            /\ formIsClean' ]_vars

\* The baseline repository map is replaced by another one in this step.
RepositoryMapChanges ==
    settings'.ARTIFACTORY_REPOSITORIES # settings.ARTIFACTORY_REPOSITORIES

\* The entries of a baseline repository map, none for an absent map.
BaselineEntries(map) == IF map = UndefinedMap THEN <<>> ELSE map

\* The rows are one row per entry of the map, in its order, each with the
\* entry's category and key and the identifier made of the category.
RowsMirror(rows, map) ==
    /\ Len(rows) = Len(BaselineEntries(map))
    /\ \A i \in DOMAIN rows :
           /\ rows[i].repositoryType = map[i].type
           /\ rows[i].repositoryKey = map[i].key
           /\ rows[i].id = IntegrationId(map[i].type)

\* C19: whenever the baseline repository map changes, the rows are exactly
\* one row per baseline entry with the entry's category and key and the
\* identifier derived from the category, whatever the rows were before; the
\* identifiers depend on the baseline alone.
C19_RowsRebuiltFromBaseline ==
    [][ RepositoryMapChanges =>
            /\ RowsMirror(artifactoryIntegrations',
                          settings'.ARTIFACTORY_REPOSITORIES)
            /\ \A i, j \in DOMAIN artifactoryIntegrations' :
                   artifactoryIntegrations'[i].id = artifactoryIntegrations'[j].id
                       => i = j ]_vars

\* C19 witness: the rows built from a baseline of two repositories.
C19_Witness ==
    /\ settings = UntrimmedDocument
    /\ Len(artifactoryIntegrations) = 2
    /\ artifactoryIntegrations[1] =
           [ id |-> IntegrationId("npm"), repositoryType |-> "npm",
             repositoryKey |-> <<"b", " ">> ]
    /\ artifactoryIntegrations[2].id = IntegrationId("pypi")

\* C20: for every row, the category options offered exclude every category
\* chosen by another row and include the row's own chosen category.
C20_OptionsExcludeOthersIncludeOwn ==
    \A i \in DOMAIN artifactoryIntegrations :
        LET integration == artifactoryIntegrations[i]
            offered == Range(availableOptions(integration))
        IN  /\ \A j \in DOMAIN artifactoryIntegrations :
                   (/\ artifactoryIntegrations[j].id # integration.id
                    /\ artifactoryIntegrations[j].repositoryType # "")
                       => artifactoryIntegrations[j].repositoryType \notin offered
            /\ integration.repositoryType # ""
                   => integration.repositoryType \in offered

\* A row is added in this step.
AddStep ==
    /\ settings' = settings
    /\ Len(artifactoryIntegrations') = Len(artifactoryIntegrations) + 1

\* Add appended one blank row with an identifier no row had, left the other
\* rows as they were, and was allowed because categories were left.
AddAppendsBlankRow ==
    LET n == Len(artifactoryIntegrations)
        added == artifactoryIntegrations'[n + 1]
    IN  /\ SubSeq(artifactoryIntegrations', 1, n) = artifactoryIntegrations
        /\ added.repositoryType = ""
        /\ added.repositoryKey = <<>>
        /\ \A i \in 1..n : artifactoryIntegrations[i].id # added.id
        /\ n < Len(repositoryTypes)

\* No more rows than available categories.
RowsFitCategories(rows, types) == Len(rows) <= Len(types)

\* C21: Add appends one blank row with a fresh identifier and leaves the
\* existing rows unchanged; Add is disallowed once there are as many rows as
\* available categories; and from a baseline with no more rows than
\* categories the number of rows never exceeds the number of available
\* categories (no step other than a baseline change makes it exceed).
C21_AddAndRowsNeverExceedCategories ==
    [][ /\ AddStep => AddAppendsBlankRow
        /\ (/\ settings' = settings
            /\ RowsFitCategories(artifactoryIntegrations, repositoryTypes))
               => RowsFitCategories(artifactoryIntegrations', repositoryTypes') ]_vars

\* C21, for the steps of Add: Add appends one blank row with a fresh
\* identifier, leaves the existing rows unchanged, is disallowed once there
\* are as many rows as available categories, and so never makes the number
\* of rows exceed the number of categories available at that moment.
C21_AddIsGuardedAndAppends ==
    [][ /\ AddStep => AddAppendsBlankRow
        /\ (/\ AddStep
            /\ RowsFitCategories(artifactoryIntegrations, repositoryTypes))
               => RowsFitCategories(artifactoryIntegrations', repositoryTypes') ]_vars

\* C21 witness: a blank row with a fresh identifier has been appended and
\* there are now as many rows as categories, so Add is disallowed.
C21_Witness ==
    /\ artifactoryIntegrations # <<>>
    /\ Len(artifactoryIntegrations) = Len(repositoryTypes)
    /\ LET added == artifactoryIntegrations[Len(artifactoryIntegrations)]
       IN  /\ added.repositoryType = ""
           /\ added.repositoryKey = <<>>
           /\ added.id \in { IntegrationId(RandomSuffixes[n]) :
                                n \in DOMAIN RandomSuffixes }
    /\ addIsDisabled

\* The rows without the row at position i.
WithoutRow(rows, i) == SubSeq(rows, 1, i - 1) \o SubSeq(rows, i + 1, Len(rows))

\* Rows disappear in this step although the baseline stays.
RemoveStep ==
    /\ settings' = settings
    /\ Len(artifactoryIntegrations') < Len(artifactoryIntegrations)

\* Exactly one row is gone; the others keep identifier, category, key and
\* relative order.
RemoveDeletesOneRow ==
    \E i \in DOMAIN artifactoryIntegrations :
        /\ artifactoryIntegrations' = WithoutRow(artifactoryIntegrations, i)
        /\ \A j \in DOMAIN artifactoryIntegrations' :
               artifactoryIntegrations'[j].id # artifactoryIntegrations[i].id

\* C22: Remove deletes the row with the given identifier and nothing else,
\* and Remove is available in every state in which a row exists.
C22_RemoveNeverBlocked ==
    [][ /\ RemoveStep => RemoveDeletesOneRow
        /\ artifactoryIntegrations # <<>> => ENABLED RemoveArtifactoryIntegration ]_vars

\* C22, with the save taken into account: Remove deletes the row with the
\* given identifier and nothing else, and Remove is available in every state
\* in which the rows are shown, which is when no save is pending.
C22_RemoveAvailableUnlessPending ==
    [][ /\ RemoveStep => RemoveDeletesOneRow
        /\ (artifactoryIntegrations # <<>> /\ ~isPending)
               => ENABLED RemoveArtifactoryIntegration
        /\ (artifactoryIntegrations # <<>> /\ isPending)
               => ~ENABLED RemoveArtifactoryIntegration ]_vars

\* C22 witness: the first of two rows has been removed, the baseline's
\* second row is the only one left, and it can be removed as well.
C22_Witness ==
    /\ settings = UntrimmedDocument
    /\ ~isPending
    /\ Len(artifactoryIntegrations) = 1
    /\ artifactoryIntegrations[1] =
           [ id |-> IntegrationId("pypi"), repositoryType |-> "pypi",
             repositoryKey |-> <<"a">> ]

\* The payload field and the baseline field behind each scalar dirty flag.
ScalarFlagNames ==
    { "languageInputHasChanged", "analyticsSwitchHasChanged",
      "soundNotificationsSwitchHasChanged",
      "proactiveConversationsSwitchHasChanged",
      "solvabilityAnalysisSwitchHasChanged", "maxBudgetPerTaskHasChanged",
      "gitUserNameHasChanged", "gitUserEmailHasChanged",
      "artifactoryHostHasChanged", "artifactoryCliInstallUrlHasChanged" }

\* The value `sent` carries the baseline value of the field behind the flag:
\* the same value, where an absent or null baseline counts as its fallback
\* and a baseline string as its trimmed text.
CarriesBaseline(flag, sent, baseline) ==
    CASE flag = "languageInputHasChanged" ->
           sent.LANGUAGE = baseline.LANGUAGE
      [] flag = "analyticsSwitchHasChanged" ->
           sent.user_consents_to_analytics
               = Truthy(baseline.USER_CONSENTS_TO_ANALYTICS)
      [] flag = "soundNotificationsSwitchHasChanged" ->
           sent.ENABLE_SOUND_NOTIFICATIONS
               = Truthy(baseline.ENABLE_SOUND_NOTIFICATIONS)
      [] flag = "proactiveConversationsSwitchHasChanged" ->
           sent.ENABLE_PROACTIVE_CONVERSATION_STARTERS
               = Truthy(baseline.ENABLE_PROACTIVE_CONVERSATION_STARTERS)
      [] flag = "solvabilityAnalysisSwitchHasChanged" ->
           sent.ENABLE_SOLVABILITY_ANALYSIS
               = Truthy(baseline.ENABLE_SOLVABILITY_ANALYSIS)
      [] flag = "maxBudgetPerTaskHasChanged" ->
           sent.MAX_BUDGET_PER_TASK
               = (IF baseline.MAX_BUDGET_PER_TASK = UndefinedBudget
                  THEN NullBudget ELSE baseline.MAX_BUDGET_PER_TASK)
      [] flag = "gitUserNameHasChanged" ->
           sent.GIT_USER_NAME
               \in { baseline.GIT_USER_NAME,
                     OrElse(baseline.GIT_USER_NAME, DEFAULT_SETTINGS.GIT_USER_NAME) }
      [] flag = "gitUserEmailHasChanged" ->
           sent.GIT_USER_EMAIL
               \in { baseline.GIT_USER_EMAIL,
                     OrElse(baseline.GIT_USER_EMAIL, DEFAULT_SETTINGS.GIT_USER_EMAIL) }
      [] flag = "artifactoryHostHasChanged" ->
           sent.ARTIFACTORY_HOST = Trim(OrElse(baseline.ARTIFACTORY_HOST, <<>>))
      [] flag = "artifactoryCliInstallUrlHasChanged" ->
           sent.ARTIFACTORY_CLI_INSTALL_URL
               = Trim(Coalesce(baseline.ARTIFACTORY_CLI_INSTALL_URL,
                               DEFAULT_SETTINGS.ARTIFACTORY_CLI_INSTALL_URL))

\* C23: at every submit, in every application mode and for every baseline,
\* the payload carries the baseline value for each scalar field whose dirty
\* flag is false.
C23_UntouchedFieldsCarryBaseline ==
    [][ SubmitStep =>
            \A flag \in ScalarFlagNames :
                ~flags[flag] => CarriesBaseline(flag, payload'[1], settings) ]_vars

\* A save completes in this step.
SaveCompletes == isPending /\ ~isPending'

\* The notifications among the calls of a step.
Notifications(made) ==
    { i \in DOMAIN made : made[i].fn \in {"displaySuccessToast", "displayErrorToast"} }

\* The calls of a successful save that submitted the analytics boolean sent.
SuccessCalls(sent) ==
    << [fn |-> "handleCaptureConsent", arg |-> IF sent THEN "true" ELSE "false"],
       [fn |-> "displaySuccessToast", arg |-> "SETTINGS$SAVED"] >>

\* C24: each completed save fires exactly one notification: on success the
\* success notification together with one consent propagation carrying the
\* submitted analytics boolean; on failure the error notification with the
\* extracted message or the generic fallback, and no consent propagation.
C24_OneNotificationPerSave ==
    [][ SaveCompletes =>
            /\ Cardinality(Notifications(calls')) = 1
            /\ \/ calls' = SuccessCalls(payload[1].user_consents_to_analytics)
               \/ /\ Len(calls') = 1
                  /\ calls'[1].fn = "displayErrorToast"
                  /\ calls'[1].arg \in (ErrorMessages \ {""}) \cup {"ERROR$GENERIC"} ]_vars

\* C24 witness: a save has succeeded and the consent propagated is the
\* submitted one, which is not the baseline's.
C24_Witness ==
    /\ settings.defined
    /\ ~isPending
    /\ calls = SuccessCalls(~Truthy(settings.USER_CONSENTS_TO_ANALYTICS))

\* A save has failed without a message of its own: the generic one was shown.
SaveFailedWithGenericMessage ==
    calls = << [fn |-> "displayErrorToast", arg |-> "ERROR$GENERIC"] >>

\* C25: after any sequence of add, remove, change-category and change-key
\* operations on rows rebuilt from a baseline, each category change picking
\* one of the options offered for its row, no two rows have the same
\* non-empty category.
C25_CategoriesStayDistinct ==
    \A i, j \in DOMAIN artifactoryIntegrations :
        (/\ i # j
         /\ artifactoryIntegrations[i].repositoryType # "")
            => artifactoryIntegrations[i].repositoryType
                   # artifactoryIntegrations[j].repositoryType

\* C25 witness: the baseline's pypi row has been given the category npm and
\* a row added later has taken pypi.
C25_Witness ==
    \E i, j \in DOMAIN artifactoryIntegrations :
        /\ artifactoryIntegrations[i].id = IntegrationId("pypi")
        /\ artifactoryIntegrations[i].repositoryType = "npm"
        /\ artifactoryIntegrations[j].id # IntegrationId("npm")
        /\ artifactoryIntegrations[j].repositoryType = "pypi"

\* The parent changes the value of the search input from outside: the
\* category of the row changes and its key is reset with it.
ExternalValueChange ==
    /\ artifactoryIntegrations # <<>>
    /\ artifactoryIntegrations' # <<>>
    /\ artifactoryIntegrations'[1].repositoryType
           # artifactoryIntegrations[1].repositoryType
    /\ artifactoryIntegrations'[1].repositoryKey
           # artifactoryIntegrations[1].repositoryKey

\* C26: when the parent changes the input's value from outside, the typed
\* value becomes the new value and the change does not by itself re-trigger
\* the debounce: no quiet period starts with it, and the debounced query
\* changes only after keystrokes.
C26_ExternalChangeDoesNotDebounce ==
    [][ /\ ExternalValueChange =>
               /\ inputValue' = artifactoryIntegrations'[1].repositoryKey
               /\ search'.elapsed = search.elapsed
        /\ search'.debouncedQuery # search.debouncedQuery
               => search.burst = "typing" ]_vars

\* The supported category identifiers.
SupportedTypes == Range(SUPPORTED_ARTIFACTORY_REPO_TYPES)

\* The supported identifiers an answer names, matched after trimming and
\* lower-casing.
NamedTypes(answer) ==
    { type \in SupportedTypes :
        \E i \in DOMAIN answer : Text(ToLowerCase(Trim(answer[i]))) = type }

\* The position at which an answer first names a type.
FirstOccurrence(answer, type) ==
    CHOOSE i \in DOMAIN answer :
        /\ Text(ToLowerCase(Trim(answer[i]))) = type
        /\ \A j \in 1..(i - 1) : Text(ToLowerCase(Trim(answer[j]))) # type

\* C27: the valid category list produced from the server's list is never
\* empty, has no duplicates, contains only supported identifiers (matched
\* after trimming and lower-casing), keeps the order of first occurrence, and
\* is the full hardcoded list when the server's list is empty or names no
\* supported identifier.
C27_ValidCategoryList ==
    (~typesResponse.pending /\ repoTypesFromApi # Undefined) =>
        LET answer == typesResponse.types
            valid == repositoryTypes
        IN  /\ valid # <<>>
            /\ \A i, j \in DOMAIN valid : valid[i] = valid[j] => i = j
            /\ Range(valid) \subseteq SupportedTypes
            /\ IF NamedTypes(answer) = {}
               THEN valid = SUPPORTED_ARTIFACTORY_REPO_TYPES
               ELSE /\ Range(valid) = NamedTypes(answer)
                    /\ \A i, j \in DOMAIN valid :
                           i < j => FirstOccurrence(answer, valid[i])
                                        < FirstOccurrence(answer, valid[j])

\* C27 witness: an answer that names npm in capitals, then pypi twice, once
\* with capitals and blanks, has become the list npm, pypi.
C27_Witness ==
    /\ ~typesResponse.pending
    /\ typesResponse.types
           = << <<"N", "P", "M">>, <<" ", "P", "y", "P", "I", " ">>,
                <<"p", "y", "p", "i">> >>
    /\ repositoryTypes = <<"npm", "pypi">>

\* An answer without a supported identifier has become the hardcoded list.
UnsupportedAnswerFallsBack ==
    /\ ~typesResponse.pending
    /\ typesResponse.types = << <<"d", "e", "b">>, <<>> >>
    /\ repositoryTypes = SUPPORTED_ARTIFACTORY_REPO_TYPES

\* The map the rows materialized from `map` convert back to.
RoundTrip(map) == integrationsToRepositoryMap(mapRepositoriesToIntegrations(map))

\* C28: for every baseline repository map, the rows materialized from it
\* convert back to a map that repositoryMapsEqual reports equal to the
\* baseline, so right after a baseline load or reload, before any row edit,
\* the 'repository map differs from baseline' flag is false.
C28_RoundTripEqualsBaseline ==
    [][ RepositoryMapChanges =>
            /\ \A map \in RepositoryMapInputs :
                   repositoryMapsEqual(map, RoundTrip(map))
            /\ repositoryMapsEqual(settings'.ARTIFACTORY_REPOSITORIES,
                                   RoundTrip(settings'.ARTIFACTORY_REPOSITORIES))
            /\ repositoryMapsEqual(
                   settings'.ARTIFACTORY_REPOSITORIES,
                   integrationsToRepositoryMap(artifactoryIntegrations')) ]_vars

\* C28 witness: the rows of a baseline whose key has a trailing blank have
\* just been materialized and the flag is false.
C28_Witness ==
    /\ settings = UntrimmedDocument
    /\ artifactoryIntegrations
           = mapRepositoriesToIntegrations(settings.ARTIFACTORY_REPOSITORIES)
    /\ artifactoryIntegrations[1].repositoryKey = <<"b", " ">>
    /\ artifactoryRepositoriesPayload # settings.ARTIFACTORY_REPOSITORIES
    /\ ~artifactoryReposHaveChanged

\* C29: whenever a search request is issued, its query text is the input's
\* typed value of that moment and its category is the row's current
\* category.
C29_RequestPairsCurrentTextAndCategory ==
    [][ \A request \in RequestsIssued :
            /\ request.query = inputValue'
            /\ request.type = artifactoryIntegrations'[1].repositoryType ]_vars

\* A dependency of the reset effect changes in this step.
SecretBaselineChanges ==
    \/ settings'.ARTIFACTORY_API_KEY_SET # settings.ARTIFACTORY_API_KEY_SET
    \/ settings'.ARTIFACTORY_HOST # settings.ARTIFACTORY_HOST
    \/ settings'.ARTIFACTORY_CLI_INSTALL_URL # settings.ARTIFACTORY_CLI_INSTALL_URL

\* C30: the clear-request flag is true only if the current baseline reports
\* a stored secret, and it is false after every change of the baseline's
\* secret-set flag, host or install URL.
C30_ClearOnlyWhenSecretStored ==
    [][ /\ flags'.artifactoryClearApiKey
               => Truthy(settings'.ARTIFACTORY_API_KEY_SET)
        /\ SecretBaselineChanges => ~flags'.artifactoryClearApiKey ]_vars

\* C30 witness: clearing is requested on a baseline that stores a secret.
C30_Witness ==
    /\ flags.artifactoryClearApiKey
    /\ form["clear-artifactory-api-key-switch"]
    /\ Truthy(settings.ARTIFACTORY_API_KEY_SET)

\* The secret has gone from the baseline and the request to clear with it.
SecretGoneAfterClearing ==
    /\ settings = KeyRemovedDocument
    /\ ~flags.artifactoryClearApiKey
    /\ ~form["clear-artifactory-api-key-switch"]

====
